---------------------------- MODULE Spec2Model ----------------------------
(***************************************************************************)
(* Round extraction from a session log (cli/round-extractor.ts) and the    *)
(* operations of cli/index.ts on the extracted rounds.                     *)
(*                                                                         *)
(* JavaScript strings are sequences of one-character strings, so that      *)
(* includes, startsWith, substring, trim and the two regular expressions   *)
(* of getDisplayContent are computed on the characters.  An absent or      *)
(* null id or timestamp is Null; the value undefined of a string-valued    *)
(* expression is Undefined.                                                *)
(***************************************************************************)
EXTENDS Integers, Sequences, FiniteSets, TLC

VARIABLES
  pass,   \* pass[p]: the locals of one call of extractRounds
  walk,   \* the locals of one call of getUltimateParentType
  scan,   \* the locals of one call of extractContextFields
  ops     \* the locals of a consumer of the rounds and its last call

vars == <<pass, walk, scan, ops>>

(***************************************************************************)
(* Bounds of the model.                                                    *)
(***************************************************************************)
\* longest entry sequence handed to extractRounds
MaxLen == 3
\* longest of the short parent chains walked by getUltimateParentType
MaxShortChain == 3
\* the long parent chains have maxSteps - 1 .. maxSteps + ChainExtra ids
ChainExtra == 2
\* longest entry sequence handed to a pair of calls of extractRounds
PairLen == 3
\* the longest entry sequence handed to extractContextFields
ScanLen == 3
\* the longest log whose rounds are handed to the consumers
OpsLen == 3
\* the longest log handed to each of two interleaved calls of extractRounds
InterleavedLen == 2
\* the longest session whose context re-stamps the system entries
RestampLen == 2

(***************************************************************************)
(* Values.                                                                 *)
(***************************************************************************)
\* null, and an absent uuid / parentUuid / timestamp (all falsy or ?? null)
Null == 0
\* undefined, as the value of a string-valued expression
Undefined == <<"undefined">>
\* the values crypto.randomUUID() may return (never the id of an entry)
RandomUUIDs == {-1, -2}
\* the values new Date().toISOString() may return
NowTimestamps == {-1}

Min(a, b) == IF a < b THEN a ELSE b

(***************************************************************************)
(* String constants.                                                       *)
(***************************************************************************)
\* the literal searched for by isInterruptMessage
InterruptMarker ==
  <<"[","R","e","q","u","e","s","t"," ","i","n","t","e","r","r","u","p","t",
    "e","d"," ","b","y"," ","u","s","e","r">>

\* the interrupt notice text written by the agent
StrInterrupt ==
  <<"[","R","e","q","u","e","s","t"," ","i","n","t","e","r","r","u","p","t",
    "e","d"," ","b","y"," ","u","s","e","r"," ","f","o","r"," ","t","o","o",
    "l"," ","u","s","e","]">>

\* an ordinary user request
StrFix ==
  <<"F","i","x"," ","t","h","e"," ","b","u","g">>

\* an ordinary assistant reply
StrDone ==
  <<"d","o","n","e">>

\* an ordinary tool output
StrOk ==
  <<"o","k">>

\* regex literal <command-name>
CmdNameOpen ==
  <<"<","c","o","m","m","a","n","d","-","n","a","m","e",">">>

\* regex literal <\/command-name>
CmdNameClose ==
  <<"<","/","c","o","m","m","a","n","d","-","n","a","m","e",">">>

\* regex literal <command-args>
CmdArgsOpen ==
  <<"<","c","o","m","m","a","n","d","-","a","r","g","s",">">>

\* regex literal <\/command-args>
CmdArgsClose ==
  <<"<","/","c","o","m","m","a","n","d","-","a","r","g","s",">">>

\* String() of a plain object
StrObject ==
  <<"[","o","b","j","e","c","t"," ","O","b","j","e","c","t","]">>

\* the truncation marker
Ellipsis ==
  <<".",".",".">>

\* the fallback summary prefix
StrRound ==
  <<"R","o","u","n","d"," ">>

\* the characters String.prototype.trim removes (those the model uses)
WhiteSpace == {" ", "\n", "\t"}

\* a string of n copies of the character c
Rep(c, n) == [k \in 1..n |-> c]

(***************************************************************************)
(* String operations.                                                      *)
(***************************************************************************)
\* s.includes(m)
Includes(s, m) ==
  \E i \in 1..(Len(s) - Len(m) + 1) : SubSeq(s, i, i + Len(m) - 1) = m

\* s.startsWith(m)
StartsWith(s, m) == Len(s) >= Len(m) /\ SubSeq(s, 1, Len(m)) = m

\* s.substring(0, n)
Substring0(s, n) == SubSeq(s, 1, Min(n, Len(s)))

\* s.trim()
Trim(s) ==
  LET keep == {i \in 1..Len(s) : s[i] \notin WhiteSpace}
      lo == CHOOSE i \in keep : \A j \in keep : i <= j
      hi == CHOOSE i \in keep : \A j \in keep : j <= i
  IN IF keep = {} THEN <<>> ELSE SubSeq(s, lo, hi)

\* s.substring(0, n) + (s.length > n ? '...' : '')
Truncate(s, n) == Substring0(s, n) \o (IF Len(s) > n THEN Ellipsis ELSE <<>>)

\* a digit as a character
Digit(d) == <<"0", "1", "2", "3", "4", "5", "6", "7", "8", "9">>[d + 1]

\* `${n}` for a natural number n
RECURSIVE NumStr(_)
NumStr(n) == IF n < 10 THEN <<Digit(n)>>
             ELSE NumStr(n \div 10) \o <<Digit(n % 10)>>

\* The end of the run of characters other than '<' that starts at index
\* from: the index of the first '<' at or after from, Len(s) + 1 if none.
RunEnd(s, from) ==
  LET stops == {k \in from..Len(s) : s[k] = "<"}
  IN IF stops = {} THEN Len(s) + 1
     ELSE CHOOSE k \in stops : \A j \in stops : k <= j

\* Whether open([^<]* or \/[^<]+)close matches s at index i.  A run of
\* [^<] cannot end before the first '<', where close has to begin.
MatchesAt(s, i, open, close, slash) ==
  LET from == i + Len(open)
      k == RunEnd(s, from)
  IN /\ i + Len(open) - 1 <= Len(s)
     /\ SubSeq(s, i, from - 1) = open
     /\ slash => (from <= Len(s) /\ s[from] = "/" /\ k >= from + 2)
     /\ k + Len(close) - 1 <= Len(s)
     /\ SubSeq(s, k, k + Len(close) - 1) = close

\* s.match(/open(group)close/): the group of the leftmost match, or
\* Undefined when there is no match.
RegexGroup(s, open, close, slash) ==
  LET hits == {i \in 1..Len(s) : MatchesAt(s, i, open, close, slash)}
      i == CHOOSE h \in hits : \A j \in hits : h <= j
  IN IF hits = {} THEN Undefined
     ELSE SubSeq(s, i + Len(open), RunEnd(s, i + Len(open)) - 1)

(***************************************************************************)
(* Log entries (ClaudeRawEntry).  entry.message.content is a record        *)
(*   [kind, text, items]: kind "absent" (no message or no content),        *)
(*   "string" (text), "array" (items: the content blocks) or "other" (a    *)
(*   number or an object).  A block is a record [type, text, content,      *)
(*   thinking]; type "null" stands for the array element null and          *)
(*   "number" for an element that is a number.                             *)
(***************************************************************************)
ContentAbsent == [kind |-> "absent", text |-> <<>>, items |-> <<>>]
ContentOther == [kind |-> "other", text |-> <<>>, items |-> <<>>]
ContentString(t) == [kind |-> "string", text |-> t, items |-> <<>>]
ContentArray(b) == [kind |-> "array", text |-> <<>>, items |-> b]

\* the content field of a tool_result block: absent, a string, or an
\* array of n objects
ToolContentAbsent == [kind |-> "absent", text |-> <<>>, n |-> 0]
ToolContentString(t) == [kind |-> "string", text |-> t, n |-> 0]
ToolContentArray(n) == [kind |-> "array", text |-> <<>>, n |-> n]

Block(ty, text, content, thinking) ==
  [type |-> ty, text |-> text, content |-> content, thinking |-> thinking]
TextBlock(t) == Block("text", t, ToolContentAbsent, Undefined)
ToolResultBlock(c) == Block("tool_result", Undefined, c, Undefined)
ToolUseBlock == Block("tool_use", Undefined, ToolContentAbsent, Undefined)
ThinkingBlock(t) == Block("thinking", Undefined, ToolContentAbsent, t)
NullBlock == Block("null", Undefined, ToolContentAbsent, Undefined)
NumberBlock == Block("number", Undefined, ToolContentAbsent, Undefined)

\* a value v in `if (v)`, for a string or undefined
Truthy(t) == t # Undefined /\ t # <<>>

\* String(v) of a tool_result content: an array of objects is rendered as
\* its elements' "[object Object]" joined by ","
RECURSIVE JoinObjects(_)
JoinObjects(n) == IF n = 0 THEN <<>>
                  ELSE IF n = 1 THEN StrObject
                  ELSE JoinObjects(n - 1) \o <<",">> \o StrObject
ToolContentToString(c) ==
  IF c.kind = "string" THEN c.text ELSE JoinObjects(c.n)

\* toolResultItem?.content as a condition: '' and undefined are falsy, an
\* array (even an empty one) is truthy
ToolContentTruthy(c) ==
  \/ c.kind = "array"
  \/ c.kind = "string" /\ c.text # <<>>

(***************************************************************************)
(* Array.prototype.find / some with the callback item => item.type === ty. *)
(* The callback reads item.type, which throws a TypeError on null; find    *)
(* and some stop at the first element the callback accepts.                *)
(***************************************************************************)
\* the index of the first block of type ty, 0 if none
FindIndex(items, ty) ==
  LET hits == {i \in 1..Len(items) : items[i].type = ty}
  IN IF hits = {} THEN 0 ELSE CHOOSE i \in hits : \A j \in hits : i <= j

\* whether find / some throws: a null element precedes the first block of
\* type ty, or there is a null element and no block of type ty
FindThrows(items, ty) ==
  LET n == FindIndex(items, "null")
      f == FindIndex(items, ty)
  IN n # 0 /\ (f = 0 \/ n < f)

(***************************************************************************)
(* isToolResult, lines 165-174.                                            *)
(***************************************************************************)
isToolResult(entry) ==
  /\ entry.type = "user"
  /\ entry.content.kind = "array"
  /\ FindIndex(entry.content.items, "tool_result") # 0

isToolResultThrows(entry) ==
  /\ entry.type = "user"
  /\ entry.content.kind = "array"
  /\ FindThrows(entry.content.items, "tool_result")

\* the literal as the comment of line 196 writes it
InterruptMarkerClosed == InterruptMarker \o <<"]">>

(***************************************************************************)
(* isInterruptMessage, lines 176-188: only the first text block is read.   *)
(***************************************************************************)
\* isInterruptMessage searching for the literal of line 196
isInterruptMessage_ClosedBracket(entry) ==
  /\ entry.type = "user"
  /\ entry.content.kind = "array"
  /\ LET i == FindIndex(entry.content.items, "text")
     IN /\ i # 0
        /\ Truthy(entry.content.items[i].text)
        /\ Includes(entry.content.items[i].text, InterruptMarkerClosed)

isInterruptMessage(entry) ==
  /\ entry.type = "user"
  /\ entry.content.kind = "array"
  /\ LET i == FindIndex(entry.content.items, "text")
     IN /\ i # 0
        /\ Truthy(entry.content.items[i].text)
        /\ Includes(entry.content.items[i].text, InterruptMarker)

isInterruptMessageThrows(entry) ==
  /\ entry.type = "user"
  /\ entry.content.kind = "array"
  /\ FindThrows(entry.content.items, "text")

(***************************************************************************)
(* The condition of line 260.  ultimateParentType is computed on line 259  *)
(* and is not read by the condition.                                       *)
(***************************************************************************)
\* isNewRoundStart without the test of isMeta
isNewRoundStart_IgnoreMeta(entry, ultimateParentType) ==
  /\ entry.type = "user"
  /\ ~isToolResult(entry)
  /\ ~isInterruptMessage(entry)

\* isNewRoundStart with the fourth condition of the comment of lines
\* 193-197: the parent chain leads to null or to an assistant
isNewRoundStart_ChainGated(entry, ultimateParentType) ==
  /\ entry.type = "user"
  /\ ~entry.isMeta
  /\ ~isToolResult(entry)
  /\ ~isInterruptMessage(entry)
  /\ ultimateParentType \in {"null", "assistant"}

isNewRoundStart(entry, ultimateParentType) ==
  /\ entry.type = "user"
  /\ ~entry.isMeta
  /\ ~isToolResult(entry)
  /\ ~isInterruptMessage(entry)

\* whether evaluating line 260 throws (&& evaluates left to right and
\* stops at the first false operand)
isNewRoundStartThrows(entry) ==
  /\ entry.type = "user"
  /\ ~entry.isMeta
  /\ \/ isToolResultThrows(entry)
     \/ ~isToolResult(entry) /\ isInterruptMessageThrows(entry)

(***************************************************************************)
(* getDisplayContent, lines 121-149.                                       *)
(***************************************************************************)
\* lines 126-133, string content
StringDisplay(content) ==
  LET name == RegexGroup(content, CmdNameOpen, CmdNameClose, TRUE)
      argsMatch == RegexGroup(content, CmdArgsOpen, CmdArgsClose, FALSE)
      args == IF argsMatch # Undefined THEN Trim(argsMatch) ELSE <<>>
  IN IF name # Undefined
     THEN name \o (IF args # <<>> THEN <<" ">> \o Truncate(args, 50) ELSE <<>>)
     ELSE Truncate(content, 100)

\* ArrayDisplay in which a first text block decides even when its text
\* is empty
ArrayDisplay_TextBlockWins(items) ==
  LET t == FindIndex(items, "text")
      r == FindIndex(items, "tool_result")
  IN IF t # 0 THEN Truncate(items[t].text, 100)
     ELSE IF r # 0 /\ ToolContentTruthy(items[r].content)
          THEN Truncate(ToolContentToString(items[r].content), 100)
          ELSE Undefined

\* lines 136-145, block content
ArrayDisplay(items) ==
  LET t == FindIndex(items, "text")
      r == FindIndex(items, "tool_result")
  IN IF t # 0 /\ Truthy(items[t].text) THEN Truncate(items[t].text, 100)
     ELSE IF r # 0 /\ ToolContentTruthy(items[r].content)
          THEN Truncate(ToolContentToString(items[r].content), 100)
          ELSE Undefined

getDisplayContent(entry) ==
  IF entry.type \in {"user", "assistant"}
  THEN IF entry.content.kind = "string" THEN StringDisplay(entry.content.text)
       ELSE IF entry.content.kind = "array"
            THEN ArrayDisplay(entry.content.items)
            ELSE Undefined
  ELSE Undefined

\* whether getDisplayContent throws: the first find meets null, or the
\* first text block has no text and the second find meets null
getDisplayContentThrows(entry) ==
  /\ entry.type \in {"user", "assistant"}
  /\ entry.content.kind = "array"
  /\ LET items == entry.content.items
         t == FindIndex(items, "text")
     IN \/ FindThrows(items, "text")
        \/ /\ ~(t # 0 /\ Truthy(items[t].text))
           /\ FindThrows(items, "tool_result")

(***************************************************************************)
(* JSON.stringify(entry): the members of the entry in order, a member      *)
(* that is absent left out.  JSON.parse is its inverse on the entries of   *)
(* a log.                                                                  *)
(***************************************************************************)
JSONStringify(entry) ==
  LET keys == {"type", "isMeta"}
              \cup (IF entry.uuid # Null THEN {"uuid"} ELSE {})
              \cup (IF entry.parentUuid # Null THEN {"parentUuid"} ELSE {})
              \cup (IF entry.timestamp # Null THEN {"timestamp"} ELSE {})
              \cup (IF entry.content.kind # "absent" THEN {"content"} ELSE {})
  IN [k \in keys |-> entry[k]]

JSONParse(raw) ==
  [type |-> raw.type,
   isMeta |-> raw.isMeta,
   uuid |-> IF "uuid" \in DOMAIN raw THEN raw.uuid ELSE Null,
   parentUuid |-> IF "parentUuid" \in DOMAIN raw THEN raw.parentUuid ELSE Null,
   timestamp |-> IF "timestamp" \in DOMAIN raw THEN raw.timestamp ELSE Null,
   content |-> IF "content" \in DOMAIN raw THEN raw.content ELSE ContentAbsent]

(***************************************************************************)
(* createRound, lines 290-313.                                             *)
(***************************************************************************)
\* lines 294-301: the first user entry with a display content that does
\* not start with '[', else the first entry
\* SummaryEntry without the test for a leading '['
SummaryEntry_AnyUserPreview(entries) ==
  LET hits == {i \in 1..Len(entries) :
                 /\ entries[i].type = "user"
                 /\ Truthy(entries[i].displayContent)}
  IN IF hits = {} THEN entries[1]
     ELSE entries[CHOOSE i \in hits : \A j \in hits : i <= j]

SummaryEntry(entries) ==
  LET hits == {i \in 1..Len(entries) :
                 /\ entries[i].type = "user"
                 /\ Truthy(entries[i].displayContent)
                 /\ ~StartsWith(entries[i].displayContent, <<"[">>)}
  IN IF hits = {} THEN entries[1]
     ELSE entries[CHOOSE i \in hits : \A j \in hits : i <= j]

\* createRound taking endTimestamp from the first entry
createRound_EndIsStart(roundNumber, entries) ==
  LET d == SummaryEntry(entries).displayContent
  IN [roundNumber |-> roundNumber,
      startUuid |-> entries[1].uuid,
      startTimestamp |-> entries[1].timestamp,
      endTimestamp |-> entries[1].timestamp,
      entries |-> entries,
      summary |-> IF Truthy(d) THEN d ELSE StrRound \o NumStr(roundNumber)]

createRound(roundNumber, entries) ==
  LET d == SummaryEntry(entries).displayContent
  IN [roundNumber |-> roundNumber,
      startUuid |-> entries[1].uuid,
      startTimestamp |-> entries[1].timestamp,
      endTimestamp |-> entries[Len(entries)].timestamp,
      entries |-> entries,
      summary |-> IF Truthy(d) THEN d ELSE StrRound \o NumStr(roundNumber)]

(***************************************************************************)
(* The index of lines 205-214: uuid -> type and uuid -> parent, over the   *)
(* entries that carry a uuid.  A later entry with the same uuid            *)
(* overwrites an earlier one.                                              *)
(***************************************************************************)
LastWith(entries, u) ==
  LET hits == {i \in 1..Len(entries) : entries[i].uuid = u}
  IN entries[CHOOSE i \in hits : \A j \in hits : j <= i]

IndexedUuids(entries) ==
  {entries[i].uuid : i \in 1..Len(entries)} \ {Null}

BuildUuidToType(entries) ==
  [u \in IndexedUuids(entries) |-> LastWith(entries, u).type]

BuildUuidToParent(entries) ==
  [u \in IndexedUuids(entries) |-> LastWith(entries, u).parentUuid]

\* Map.prototype.get
MapGet(map, key, default) == IF key \in DOMAIN map THEN map[key] ELSE default

(***************************************************************************)
(* getUltimateParentType, lines 216-237.  A walk is the record of the      *)
(* call's locals: the two maps it reads, its argument uuid, currentUuid,   *)
(* visited, steps, and pc / result for the position and the return value   *)
(* ("null" for null).                                                      *)
(***************************************************************************)
\* line 222
maxSteps == 100

NewWalk(uuidToType, uuidToParent, uuid) ==
  [uuidToType |-> uuidToType, uuidToParent |-> uuidToParent, uuid |-> uuid,
   currentUuid |-> Null, visited |-> {}, steps |-> 0,
   pc |-> "call", result |-> "null"]

Return(w, value) == [w EXCEPT !.pc = "done", !.result = value]

\* lines 218-221: the early return and the initialisation of the locals
WalkEnter(w) ==
  IF w.uuid = Null THEN Return(w, "null")
  ELSE [w EXCEPT !.pc = "while", !.currentUuid = w.uuid]

\* WalkContinues with <= for <
WalkContinues_OffByOne(w) == w.currentUuid # Null /\ w.steps <= maxSteps

\* the loop condition of line 224
WalkContinues(w) == w.currentUuid # Null /\ w.steps < maxSteps

\* IsCircular without the visited set
IsCircular_Never(w) == FALSE

\* the guard of line 225
IsCircular(w) == w.currentUuid \in w.visited

\* IsAnchor without the system role
IsAnchor_AssistantOnly(type) == type = "assistant"

\* the test of line 229
IsAnchor(type) == type \in {"assistant", "system"}

\* one test of the loop condition and, when it holds, one run of the loop
\* body (lines 224-235); line 236 when the loop is left
WalkIterate(w) ==
  LET type == MapGet(w.uuidToType, w.currentUuid, "undefined")
  IN IF ~WalkContinues(w) THEN Return(w, "null")
     ELSE IF IsCircular(w) THEN Return(w, "null")
     ELSE IF IsAnchor(type)
          THEN Return([w EXCEPT !.visited = @ \cup {w.currentUuid}], type)
          ELSE [w EXCEPT !.visited = @ \cup {w.currentUuid},
                         !.currentUuid = MapGet(w.uuidToParent, w.currentUuid, Null),
                         !.steps = @ + 1]

WalkStep(w) == IF w.pc = "call" THEN WalkEnter(w) ELSE WalkIterate(w)

RECURSIVE RunWalk(_)
RunWalk(w) == IF w.pc = "done" THEN w.result ELSE RunWalk(WalkStep(w))

getUltimateParentType(uuidToType, uuidToParent, uuid) ==
  RunWalk(NewWalk(uuidToType, uuidToParent, uuid))

\* the steps of a call of getUltimateParentType on its own
WalkCall ==
  /\ walk.pc = "call"
  /\ walk' = WalkEnter(walk)
  /\ UNCHANGED <<pass, scan, ops>>

\* the loop condition fails: line 236
WalkLeave ==
  /\ walk.pc = "while"
  /\ ~WalkContinues(walk)
  /\ walk' = WalkIterate(walk)
  /\ UNCHANGED <<pass, scan, ops>>

\* line 225: the break, then line 236
WalkBreak ==
  /\ walk.pc = "while"
  /\ WalkContinues(walk)
  /\ IsCircular(walk)
  /\ walk' = WalkIterate(walk)
  /\ UNCHANGED <<pass, scan, ops>>

\* lines 226-231: the return of an assistant or system type
WalkFound ==
  /\ walk.pc = "while"
  /\ WalkContinues(walk)
  /\ ~IsCircular(walk)
  /\ IsAnchor(MapGet(walk.uuidToType, walk.currentUuid, "undefined"))
  /\ walk' = WalkIterate(walk)
  /\ UNCHANGED <<pass, scan, ops>>

\* lines 226-234: on to the parent
WalkAdvance ==
  /\ walk.pc = "while"
  /\ WalkContinues(walk)
  /\ ~IsCircular(walk)
  /\ ~IsAnchor(MapGet(walk.uuidToType, walk.currentUuid, "undefined"))
  /\ walk' = WalkIterate(walk)
  /\ UNCHANGED <<pass, scan, ops>>

(***************************************************************************)
(* extractRounds, lines 202-288.  pass[p] holds the locals of one call:    *)
(* the argument entries, the two maps, the index i of the entry the loop   *)
(* of line 243 takes next, currentRoundEntries, roundNumber,               *)
(* lastAssistantUuid, the last ultimateParentType, rounds, and pc:         *)
(* "index" before the maps are built, "loop", "done" after the return,     *)
(* "threw" when a TypeError left the call.                                 *)
(***************************************************************************)
NewPass(entries) ==
  [entries |-> entries,
   uuidToType |-> << >>,
   uuidToParent |-> << >>,
   i |-> 1,
   currentRoundEntries |-> << >>,
   roundNumber |-> 0,
   lastAssistantUuid |-> Null,
   ultimateParentType |-> "null",
   rounds |-> << >>,
   pc |-> "index"]

\* lines 244-255
RoundEntryOf(entry, uuid, timestamp) ==
  [type |-> entry.type,
   uuid |-> uuid,
   parentUuid |-> entry.parentUuid,
   timestamp |-> timestamp,
   rawContent |-> JSONStringify(entry),
   displayContent |-> getDisplayContent(entry)]

\* entry.uuid || crypto.randomUUID()
UuidChoices(entry) == IF entry.uuid # Null THEN {entry.uuid} ELSE RandomUUIDs

\* entry.timestamp || new Date().toISOString()
TimestampChoices(entry) ==
  IF entry.timestamp # Null THEN {entry.timestamp} ELSE NowTimestamps

\* the entry the loop takes next
AtEntry(s) == s.pc = "loop" /\ s.i <= Len(s.entries)
Entry(s) == s.entries[s.i]

\* line 259
UltimateParentTypeOf(s) ==
  getUltimateParentType(s.uuidToType, s.uuidToParent, Entry(s).parentUuid)

\* whether the loop body throws on the entry
BodyThrows(entry) ==
  getDisplayContentThrows(entry) \/ isNewRoundStartThrows(entry)

\* lines 205-214
IndexBuilt(s) ==
  [s EXCEPT !.uuidToType = BuildUuidToType(s.entries),
            !.uuidToParent = BuildUuidToParent(s.entries),
            !.pc = "loop"]

BuildIndex(p) ==
  /\ pass[p].pc = "index"
  /\ pass' = [pass EXCEPT ![p] = IndexBuilt(@)]
  /\ UNCHANGED <<walk, scan, ops>>

\* SealAndStart with the round in progress discarded, not pushed
SealAndStart_DropPrevious(s, roundEntry) ==
  [s EXCEPT
     !.roundNumber = IF Len(s.currentRoundEntries) > 0 THEN @ + 1 ELSE @,
     !.currentRoundEntries = <<roundEntry>>,
     !.lastAssistantUuid = Null,
     !.ultimateParentType = UltimateParentTypeOf(s),
     !.i = @ + 1]

\* SealAndStart without roundNumber++
SealAndStart_NoIncrement(s, roundEntry) ==
  [s EXCEPT
     !.rounds = IF Len(s.currentRoundEntries) > 0
                THEN Append(@, createRound(s.roundNumber, s.currentRoundEntries))
                ELSE @,
     !.currentRoundEntries = <<roundEntry>>,
     !.lastAssistantUuid = Null,
     !.ultimateParentType = UltimateParentTypeOf(s),
     !.i = @ + 1]

\* SealAndStart that keeps the sealed entries in the bucket
SealAndStart_KeepBucket(s, roundEntry) ==
  [s EXCEPT
     !.rounds = IF Len(s.currentRoundEntries) > 0
                THEN Append(@, createRound(s.roundNumber, s.currentRoundEntries))
                ELSE @,
     !.roundNumber = IF Len(s.currentRoundEntries) > 0 THEN @ + 1 ELSE @,
     !.currentRoundEntries = Append(@, roundEntry),
     !.lastAssistantUuid = Null,
     !.ultimateParentType = UltimateParentTypeOf(s),
     !.i = @ + 1]

\* lines 262-269: the entry starts a round
SealAndStart(s, roundEntry) ==
  [s EXCEPT
     !.rounds = IF Len(s.currentRoundEntries) > 0
                THEN Append(@, createRound(s.roundNumber, s.currentRoundEntries))
                ELSE @,
     !.roundNumber = IF Len(s.currentRoundEntries) > 0 THEN @ + 1 ELSE @,
     !.currentRoundEntries = <<roundEntry>>,
     !.lastAssistantUuid = Null,
     !.ultimateParentType = UltimateParentTypeOf(s),
     !.i = @ + 1]

\* StartRound with a round counter that the calls share: sealing a round
\* in one call counts in the others too
StartRound_SharedCounter(p) ==
  /\ AtEntry(pass[p])
  /\ ~BodyThrows(Entry(pass[p]))
  /\ isNewRoundStart(Entry(pass[p]), UltimateParentTypeOf(pass[p]))
  /\ \E uuid \in UuidChoices(Entry(pass[p])),
        timestamp \in TimestampChoices(Entry(pass[p])) :
       pass' = [q \in DOMAIN pass |->
         IF q = p
         THEN SealAndStart(pass[p], RoundEntryOf(Entry(pass[p]), uuid, timestamp))
         ELSE [pass[q] EXCEPT !.roundNumber =
                 IF Len(pass[p].currentRoundEntries) > 0 THEN @ + 1 ELSE @]]
  /\ UNCHANGED <<walk, scan, ops>>

StartRound(p) ==
  /\ AtEntry(pass[p])
  /\ ~BodyThrows(Entry(pass[p]))
  /\ isNewRoundStart(Entry(pass[p]), UltimateParentTypeOf(pass[p]))
  /\ \E uuid \in UuidChoices(Entry(pass[p])),
        timestamp \in TimestampChoices(Entry(pass[p])) :
       pass' = [pass EXCEPT ![p] =
         SealAndStart(@, RoundEntryOf(Entry(@), uuid, timestamp))]
  /\ UNCHANGED <<walk, scan, ops>>

\* PushToCurrent that seals the round in progress and opens a round at
\* the entry, as if every entry began a round
PushToCurrent_OpenRound(s, roundEntry) == SealAndStart(s, roundEntry)

\* lines 270-275: the entry joins the round in progress
PushToCurrent(s, roundEntry) ==
  [s EXCEPT
     !.currentRoundEntries = Append(@, roundEntry),
     !.lastAssistantUuid =
        IF roundEntry.type = "assistant" THEN roundEntry.uuid ELSE @,
     !.ultimateParentType = UltimateParentTypeOf(s),
     !.i = @ + 1]

AddToRound(p) ==
  /\ AtEntry(pass[p])
  /\ ~BodyThrows(Entry(pass[p]))
  /\ ~isNewRoundStart(Entry(pass[p]), UltimateParentTypeOf(pass[p]))
  /\ Len(pass[p].currentRoundEntries) > 0
  /\ \E uuid \in UuidChoices(Entry(pass[p])),
        timestamp \in TimestampChoices(Entry(pass[p])) :
       pass' = [pass EXCEPT ![p] =
         PushToCurrent(@, RoundEntryOf(Entry(@), uuid, timestamp))]
  /\ UNCHANGED <<walk, scan, ops>>

\* PushPreface with the entry dropped: a log is taken to begin at its
\* first user message
PushPreface_Drop(s, roundEntry) ==
  [s EXCEPT
     !.ultimateParentType = UltimateParentTypeOf(s),
     !.i = @ + 1]

\* lines 276-279: an entry before the first user message
PushPreface(s, roundEntry) ==
  [s EXCEPT
     !.currentRoundEntries = Append(@, roundEntry),
     !.ultimateParentType = UltimateParentTypeOf(s),
     !.i = @ + 1]

AddPreface(p) ==
  /\ AtEntry(pass[p])
  /\ ~BodyThrows(Entry(pass[p]))
  /\ ~isNewRoundStart(Entry(pass[p]), UltimateParentTypeOf(pass[p]))
  /\ Len(pass[p].currentRoundEntries) = 0
  /\ \E uuid \in UuidChoices(Entry(pass[p])),
        timestamp \in TimestampChoices(Entry(pass[p])) :
       pass' = [pass EXCEPT ![p] =
         PushPreface(@, RoundEntryOf(Entry(@), uuid, timestamp))]
  /\ UNCHANGED <<walk, scan, ops>>

\* item.type on a null content block: the TypeError leaves extractRounds
ThrowTypeError(p) ==
  /\ AtEntry(pass[p])
  /\ BodyThrows(Entry(pass[p]))
  /\ pass' = [pass EXCEPT ![p] = [@ EXCEPT !.pc = "threw"]]
  /\ UNCHANGED <<walk, scan, ops>>

\* SealLast without the push of lines 283-285
SealLast_Forget(s) == [s EXCEPT !.pc = "done"]

\* lines 282-287: the last round, and the return
SealLast(s) ==
  [s EXCEPT
     !.rounds = IF Len(s.currentRoundEntries) > 0
                THEN Append(@, createRound(s.roundNumber, s.currentRoundEntries))
                ELSE @,
     !.pc = "done"]

Finish(p) ==
  /\ pass[p].pc = "loop"
  /\ pass[p].i > Len(pass[p].entries)
  /\ pass' = [pass EXCEPT ![p] = SealLast(@)]
  /\ UNCHANGED <<walk, scan, ops>>

(***************************************************************************)
(* extractContextFields, lines 26-59.  For this function an entry is the   *)
(* record of its properties, a property that is absent being outside the   *)
(* record's domain; the value of a property is a string of characters,     *)
(* JsonNull for null, or Undefined.  A scan is the record of the call's    *)
(* locals: entries, the position i of the loop, pc and the result.         *)
(***************************************************************************)
\* lines 26-35
CONTEXT_FIELDS ==
  <<"cwd", "sessionId", "version", "gitBranch", "userType", "isSidechain",
    "thinkingMetadata", "todos">>

\* the value null of a property
JsonNull == <<"null">>

\* ContextOf reading `entry[field] != null` for `entry[field] !== undefined`
ContextOf_SkipNull(entry) ==
  LET fields == {CONTEXT_FIELDS[k] : k \in DOMAIN CONTEXT_FIELDS}
      carried == {field \in fields \cap DOMAIN entry :
                    entry[field] \notin {Undefined, JsonNull}}
  IN [field \in carried |-> entry[field]]

\* lines 43-49: the context built from one entry
ContextOf(entry) ==
  LET fields == {CONTEXT_FIELDS[k] : k \in DOMAIN CONTEXT_FIELDS}
      carried == {field \in fields \cap DOMAIN entry :
                    entry[field] # Undefined}
  IN [field \in carried |-> entry[field]]

\* the object {}
EmptyContext == [field \in {} |-> Undefined]

NewScan(entries) ==
  [entries |-> entries, i |-> 1, pc |-> "call", result |-> EmptyContext]

ScanReturn(s, context) == [s EXCEPT !.pc = "done", !.result = context]

\* lines 38-40
ScanEnter(s) ==
  IF Len(s.entries) = 0 THEN ScanReturn(s, EmptyContext)
  ELSE [s EXCEPT !.pc = "loop"]

\* lines 42-55: one run of the loop body; line 58 when the loop is left
ScanIterate(s) ==
  IF s.i > Len(s.entries) THEN ScanReturn(s, EmptyContext)
  ELSE LET context == ContextOf(s.entries[s.i])
       IN IF DOMAIN context # {} THEN ScanReturn(s, context)
          ELSE [s EXCEPT !.i = @ + 1]

ScanStep(s) == IF s.pc = "call" THEN ScanEnter(s) ELSE ScanIterate(s)

RECURSIVE RunScan(_)
RunScan(s) == IF s.pc = "done" THEN s.result ELSE RunScan(ScanStep(s))

extractContextFields(entries) == RunScan(NewScan(entries))

\* no call of extractContextFields is in progress
NoScan == NewScan(<< >>)

ScanEmptyInput ==
  /\ scan.pc = "call"
  /\ Len(scan.entries) = 0
  /\ scan' = ScanEnter(scan)
  /\ UNCHANGED <<pass, walk, ops>>

ScanCall ==
  /\ scan.pc = "call"
  /\ Len(scan.entries) # 0
  /\ scan' = ScanEnter(scan)
  /\ UNCHANGED <<pass, walk, ops>>

ScanSkip ==
  /\ scan.pc = "loop"
  /\ scan.i <= Len(scan.entries)
  /\ DOMAIN ContextOf(scan.entries[scan.i]) = {}
  /\ scan' = ScanIterate(scan)
  /\ UNCHANGED <<pass, walk, ops>>

ScanFound ==
  /\ scan.pc = "loop"
  /\ scan.i <= Len(scan.entries)
  /\ DOMAIN ContextOf(scan.entries[scan.i]) # {}
  /\ scan' = ScanIterate(scan)
  /\ UNCHANGED <<pass, walk, ops>>

ScanExhausted ==
  /\ scan.pc = "loop"
  /\ scan.i > Len(scan.entries)
  /\ scan' = ScanIterate(scan)
  /\ UNCHANGED <<pass, walk, ops>>

(***************************************************************************)
(* loadSystemEntries, lines 61-111.  The file is given as what JSON.parse  *)
(* makes of its text: a record [kind, items] with kind "invalid" (the      *)
(* text is no JSON), "other" (a value that is no array) or "array"; an     *)
(* item is [isObject, object], object being the record of the item's      *)
(* properties when the item is an object and not null.  uuids[k] is what   *)
(* crypto.randomUUID() returns for the k-th item when it is called.  The   *)
(* value is [threw, entries]: the call throws or returns entries.          *)
(***************************************************************************)
NotJson == [kind |-> "invalid", items |-> << >>]
NotArray == [kind |-> "other", items |-> << >>]
JsonArray(items) == [kind |-> "array", items |-> items]
ObjectItem(object) == [isObject |-> TRUE, object |-> object]
NullItem == [isObject |-> FALSE, object |-> [x \in {} |-> Undefined]]

Loaded(entries) == [threw |-> FALSE, entries |-> entries]
LoadThrew == [threw |-> TRUE, entries |-> << >>]

\* !v for the value of a property
Falsy(object, field) ==
  field \notin DOMAIN object \/ object[field] \in {Undefined, JsonNull, << >>}

StrSystem == <<"s", "y", "s", "t", "e", "m">>

\* with(object, field, value): the object with the property set
WithField(object, field, value) ==
  [f \in DOMAIN object \cup {field} |->
     IF f = field THEN value ELSE object[f]]

\* lines 88-95: the fields of CONTEXT_FIELDS that are in contextFields
\* are set on the copy of the item
Restamped(object, contextFields) ==
  LET fields == {CONTEXT_FIELDS[k] : k \in DOMAIN CONTEXT_FIELDS}
      set == fields \cap DOMAIN contextFields
  IN [f \in DOMAIN object \cup set |->
        IF f \in set THEN contextFields[f] ELSE object[f]]

\* lines 86-107: the entry made of one item
SystemEntryOf(object, contextFields, uuid) ==
  LET stamped == Restamped(object, contextFields)
      withUuid == IF Falsy(stamped, "uuid")
                  THEN WithField(stamped, "uuid", uuid) ELSE stamped
  IN IF Falsy(withUuid, "type")
     THEN WithField(withUuid, "type", StrSystem) ELSE withUuid

loadSystemEntries(parsed, contextFields, uuids) ==
  IF parsed.kind # "array" THEN LoadThrew
  ELSE IF \E k \in 1..Len(parsed.items) : ~parsed.items[k].isObject
    THEN LoadThrew
  ELSE Loaded([k \in 1..Len(parsed.items) |->
                 SystemEntryOf(parsed.items[k].object, contextFields,
                               uuids[k])])

(***************************************************************************)
(* listRounds, lines 315-326.                                              *)
(***************************************************************************)
listRounds(rounds, filePath) ==
  [filePath |-> filePath,
   totalRounds |-> Len(rounds),
   rounds |-> [k \in 1..Len(rounds) |->
                 [number |-> rounds[k].roundNumber,
                  summary |-> rounds[k].summary,
                  entryCount |-> Len(rounds[k].entries),
                  startTimestamp |-> rounds[k].startTimestamp]]]

(***************************************************************************)
(* extractRound, lines 328-348.  The value is null or a text; a text is    *)
(* the sequence of its lines, each but the last followed by a newline.     *)
(***************************************************************************)
\* Array.prototype.find with the callback r => r.roundNumber === n: the
\* index of the first such round, 0 if none
FindRound(rounds, roundNumber) ==
  LET hits == {k \in 1..Len(rounds) : rounds[k].roundNumber = roundNumber}
  IN IF hits = {} THEN 0 ELSE CHOOSE k \in hits : \A j \in hits : k <= j

\* lines.join('\n')
JoinLines(lines) ==
  [k \in 1..Len(lines) |-> [line |-> lines[k], newline |-> k < Len(lines)]]

NullContent == [isNull |-> TRUE, text |-> << >>]
TextContent(text) == [isNull |-> FALSE, text |-> text]

\* extractRound returning the round at index roundNumber
extractRound_ByIndex(rounds, roundNumber, systemEntries) ==
  IF roundNumber + 1 \notin 1..Len(rounds) THEN NullContent
  ELSE LET round == rounds[roundNumber + 1]
       IN TextContent(JoinLines(
            [i \in 1..Len(systemEntries) |-> JSONStringify(systemEntries[i])]
            \o [i \in 1..Len(round.entries) |-> round.entries[i].rawContent]))

\* systemEntries is << >> when the argument is left out
extractRound(rounds, roundNumber, systemEntries) ==
  LET k == FindRound(rounds, roundNumber)
  IN IF k = 0 THEN NullContent
     ELSE TextContent(JoinLines(
            [i \in 1..Len(systemEntries) |-> JSONStringify(systemEntries[i])]
            \o [i \in 1..Len(rounds[k].entries) |->
                  rounds[k].entries[i].rawContent]))

(***************************************************************************)
(* prependSystemEntries, lines 350-383.  uuids[k][i] and timestamps[k][i]  *)
(* are the values crypto.randomUUID() and new Date() give for the i-th     *)
(* system entry in the k-th round, read when the entry has none.           *)
(***************************************************************************)
\* lines 357-366: the display content of a system entry
SystemDisplay(entry) ==
  IF entry.content.kind = "string"
  THEN Substring0(entry.content.text, 100)
  ELSE IF entry.content.kind = "array"
       THEN LET t == FindIndex(entry.content.items, "text")
            IN IF t # 0 /\ Truthy(entry.content.items[t].text)
               THEN Substring0(entry.content.items[t].text, 100)
               ELSE Undefined
       ELSE Undefined

\* SystemRoundEntry that serializes the entry with its parent cleared
SystemRoundEntry_RawWithoutParent(entry, uuid, timestamp) ==
  [type |-> entry.type,
   uuid |-> IF entry.uuid # Null THEN entry.uuid ELSE uuid,
   parentUuid |-> Null,
   timestamp |-> IF entry.timestamp # Null THEN entry.timestamp ELSE timestamp,
   rawContent |-> JSONStringify([entry EXCEPT !.parentUuid = Null]),
   displayContent |-> SystemDisplay(entry)]

\* lines 368-375
SystemRoundEntry(entry, uuid, timestamp) ==
  [type |-> entry.type,
   uuid |-> IF entry.uuid # Null THEN entry.uuid ELSE uuid,
   parentUuid |-> Null,
   timestamp |-> IF entry.timestamp # Null THEN entry.timestamp ELSE timestamp,
   rawContent |-> JSONStringify(entry),
   displayContent |-> SystemDisplay(entry)]

\* prependSystemEntries putting the system entries behind the round's
prependSystemEntries_Append(rounds, systemEntries, uuids, timestamps) ==
  IF Len(systemEntries) = 0 THEN rounds
  ELSE [k \in 1..Len(rounds) |->
          [rounds[k] EXCEPT !.entries =
             @ \o [i \in 1..Len(systemEntries) |->
                     SystemRoundEntry(systemEntries[i], uuids[k][i],
                                      timestamps[k][i])]]]

\* prependSystemEntries changing the first round only
prependSystemEntries_FirstRoundOnly(rounds, systemEntries, uuids, timestamps) ==
  IF Len(systemEntries) = 0 THEN rounds
  ELSE [k \in 1..Len(rounds) |->
          IF k > 1 THEN rounds[k]
          ELSE [rounds[k] EXCEPT !.entries =
                  [i \in 1..Len(systemEntries) |->
                     SystemRoundEntry(systemEntries[i], uuids[k][i],
                                      timestamps[k][i])] \o @]]

prependSystemEntries(rounds, systemEntries, uuids, timestamps) ==
  IF Len(systemEntries) = 0 THEN rounds
  ELSE [k \in 1..Len(rounds) |->
          [rounds[k] EXCEPT !.entries =
             [i \in 1..Len(systemEntries) |->
                SystemRoundEntry(systemEntries[i], uuids[k][i],
                                 timestamps[k][i])] \o @]]

(***************************************************************************)
(* The keyword filter of main, cli/index.ts lines 280-284.                 *)
(***************************************************************************)
UpperCaseLetters ==
  <<"A", "B", "C", "D", "E", "F", "G", "H", "I", "J", "K", "L", "M",
    "N", "O", "P", "Q", "R", "S", "T", "U", "V", "W", "X", "Y", "Z">>

LowerCaseLetters ==
  <<"a", "b", "c", "d", "e", "f", "g", "h", "i", "j", "k", "l", "m",
    "n", "o", "p", "q", "r", "s", "t", "u", "v", "w", "x", "y", "z">>

\* String.prototype.toLowerCase
toLowerCase(s) ==
  [i \in 1..Len(s) |->
     IF \E k \in DOMAIN UpperCaseLetters : UpperCaseLetters[k] = s[i]
     THEN LowerCaseLetters[CHOOSE k \in DOMAIN UpperCaseLetters :
                             UpperCaseLetters[k] = s[i]]
     ELSE s[i]]

\* the callback of line 282 without toLowerCase
KeywordMatches_CaseSensitive(round, keyword) ==
  Includes(round.summary, keyword)

\* the callback of lines 282-283
KeywordMatches(round, keyword) ==
  Includes(toLowerCase(round.summary), toLowerCase(keyword))

\* matchedRounds without the first round that matches
matchedRounds_SkipFirst(allRounds, keyword) ==
  LET Keep(round) == KeywordMatches(round, keyword)
  IN IF SelectSeq(allRounds, Keep) = << >> THEN << >>
     ELSE Tail(SelectSeq(allRounds, Keep))

\* allRounds.filter(...) of line 282; filter is SelectSeq
matchedRounds(allRounds, keyword) ==
  LET Keep(round) == KeywordMatches(round, keyword)
  IN SelectSeq(allRounds, Keep)

(***************************************************************************)
(* hasThinking, lines 385-405, and extractRoundsWithThinking, lines        *)
(* 407-429.                                                                *)
(***************************************************************************)
\* String.prototype.trim() !== ''
NotBlank(s) == Trim(s) # << >>

\* ItemHasThinking without the trim
ItemHasThinking_NoTrim(item) ==
  /\ item.type \notin {"null", "number"}
  /\ item.thinking # Undefined
  /\ Truthy(item.thinking)

\* lines 394-399: the item is an object, carries a thinking property, and
\* its value is a string that is not blank
ItemHasThinking(item) ==
  /\ item.type \notin {"null", "number"}
  /\ item.thinking # Undefined
  /\ Truthy(item.thinking) /\ NotBlank(item.thinking)

\* entry.message?.content; an object without a message has none
MessageContent(entry) ==
  IF "content" \in DOMAIN entry THEN entry.content ELSE ContentAbsent

\* lines 391-401
EntryHasThinking(entry) ==
  /\ MessageContent(entry).kind = "array"
  /\ \E i \in 1..Len(MessageContent(entry).items) :
       ItemHasThinking(MessageContent(entry).items[i])

hasThinking(entries) ==
  \E i \in 1..Len(entries) : EntryHasThinking(entries[i])

\* lines 418-423, the same test in extractRoundsWithThinking
ParsedItemHasThinking(item) ==
  /\ item.type \notin {"null", "number"}
  /\ item.thinking # Undefined
  /\ Truthy(item.thinking) /\ NotBlank(item.thinking)

\* lines 414-425
RoundEntryHasThinking(roundEntry) ==
  LET parsedEntry == JSONParse(roundEntry.rawContent)
  IN /\ MessageContent(parsedEntry).kind = "array"
     /\ \E i \in 1..Len(MessageContent(parsedEntry).items) :
          ParsedItemHasThinking(MessageContent(parsedEntry).items[i])

\* the callback of lines 411-428
RoundHasThinking(round) ==
  \E i \in 1..Len(round.entries) : RoundEntryHasThinking(round.entries[i])

\* extractRoundsWithThinking that numbers the rounds it keeps from 0
extractRoundsWithThinking_Renumbered(rounds) ==
  LET kept == SelectSeq(rounds, RoundHasThinking)
  IN [k \in 1..Len(kept) |-> [kept[k] EXCEPT !.roundNumber = k - 1]]

extractRoundsWithThinking(rounds) == SelectSeq(rounds, RoundHasThinking)

(***************************************************************************)
(* The consumer of a segmentation, main of cli/index.ts.  ops is the       *)
(* record of its locals and of the call it has made.  pc is "idle" before  *)
(* it has the rounds, "ready" between two calls and "called" when a call   *)
(* has returned:                                                           *)
(*   extracted      the array extractRounds returned, as it is now         *)
(*   allRounds      the collection the consumer holds                      *)
(*   prepended      whether it has been through prependSystemEntries       *)
(*   op             the function called ("none" between two calls)         *)
(*   rounds, systemEntries, keyword, roundNumber   the arguments of that   *)
(*                  call                                                   *)
(*   returned, output, content, has   its value: a round collection, the   *)
(*                  value of listRounds, of extractRound, of hasThinking   *)
(*   stdout, exitCode   what main has printed with console.log and the     *)
(*                  code it has exited with after extractRound             *)
(***************************************************************************)
FilePath == "session.jsonl"

\* the process has not called process.exit
NotExited == -1

Idle ==
  [pc |-> "idle", extracted |-> << >>, allRounds |-> << >>, prepended |-> FALSE,
   op |-> "none", rounds |-> << >>, systemEntries |-> << >>,
   keyword |-> << >>, roundNumber |-> 0,
   returned |-> << >>, output |-> listRounds(<< >>, FilePath),
   content |-> NullContent, has |-> FALSE,
   stdout |-> NullContent, exitCode |-> NotExited,
   systemFile |-> NotJson]

\* line 257: let allRounds = extractRounds(entries)
Received(rounds) ==
  [Idle EXCEPT !.pc = "ready", !.extracted = rounds, !.allRounds = rounds]

\* a call of op on the collection the consumer holds
Calling(s, op) ==
  [Idle EXCEPT !.pc = "called", !.extracted = s.extracted,
               !.allRounds = s.allRounds, !.prepended = s.prepended,
               !.op = op, !.rounds = s.allRounds]

\* the consumer goes on after a call
Proceeding(s) ==
  [Idle EXCEPT !.pc = "ready", !.extracted = s.extracted,
               !.allRounds = s.allRounds, !.prepended = s.prepended]

\* lines 240-254: systemEntries = await loadSystemEntries(systemFile,
\* contextFields); an error is reported and ends the process with code 1
LoadCall(s, parsed, contextFields, uuids) ==
  LET value == loadSystemEntries(parsed, contextFields, uuids)
  IN [s EXCEPT !.op = "loadSystemEntries",
               !.systemFile = parsed,
               !.systemEntries = value.entries,
               !.exitCode = IF value.threw THEN 1 ELSE NotExited]

\* line 218
ListCall(s) ==
  [Calling(s, "listRounds") EXCEPT
     !.output = listRounds(s.allRounds, FilePath)]

\* lines 271-277: null is reported on stderr and ends the process with
\* code 1, a text is printed and ends it with code 0
ExtractCall(s, roundNumber, systemEntries) ==
  LET content == extractRound(s.allRounds, roundNumber, systemEntries)
  IN [Calling(s, "extractRound") EXCEPT
        !.roundNumber = roundNumber,
        !.systemEntries = systemEntries,
        !.content = content,
        !.stdout = IF content.isNull THEN NullContent ELSE content,
        !.exitCode = IF content.isNull THEN 1 ELSE 0]

\* KeywordCall with a filter that removes the rejected rounds from the
\* array it is given
KeywordCall_Splice(s, keyword) ==
  [Calling(s, "filter") EXCEPT
     !.keyword = keyword,
     !.returned = matchedRounds(s.allRounds, keyword),
     !.allRounds = matchedRounds(s.allRounds, keyword),
     !.extracted = IF s.extracted = s.allRounds
                   THEN matchedRounds(s.allRounds, keyword) ELSE @]

\* lines 282-284; the consumer goes on with the rounds that matched
KeywordCall(s, keyword) ==
  [Calling(s, "filter") EXCEPT
     !.keyword = keyword,
     !.returned = matchedRounds(s.allRounds, keyword),
     !.allRounds = matchedRounds(s.allRounds, keyword)]

\* lines 264-266: allRounds = prependSystemEntries(allRounds,
\* systemEntries), once
PrependCall(s, systemEntries, uuids, timestamps) ==
  [Calling(s, "prependSystemEntries") EXCEPT
     !.systemEntries = systemEntries,
     !.returned =
        prependSystemEntries(s.allRounds, systemEntries, uuids, timestamps),
     !.allRounds =
        prependSystemEntries(s.allRounds, systemEntries, uuids, timestamps),
     !.prepended = TRUE]

\* line 581; the consumer goes on with the rounds that have thinking
ThinkingCall(s) ==
  [Calling(s, "extractRoundsWithThinking") EXCEPT
     !.returned = extractRoundsWithThinking(s.allRounds),
     !.allRounds = extractRoundsWithThinking(s.allRounds)]

\* line 575: hasThinking(entries)
HasThinkingCall(s, entries) ==
  [Calling(s, "hasThinking") EXCEPT !.has = hasThinking(entries)]

(***************************************************************************)
(* The entry sequences handed to extractRounds.  An entry is built from a  *)
(* shape (its type, meta flag and content, whether it carries a uuid and   *)
(* a timestamp, and where its parentUuid points) and its position i in a   *)
(* log of n entries: its uuid and its timestamp are i.                     *)
(***************************************************************************)
Shape(type, isMeta, content, hasUuid, hasTimestamp, parent) ==
  [type |-> type, isMeta |-> isMeta, content |-> content,
   hasUuid |-> hasUuid, hasTimestamp |-> hasTimestamp, parent |-> parent]

\* a 101-character user message
StrLong == Rep("x", 101)

\* a slash command as the log records it
StrCommand ==
  CmdNameOpen \o <<"/", "a", "d", "d">> \o CmdNameClose
    \o CmdArgsOpen \o <<" ", "x", " ">> \o CmdArgsClose

\* a slash command with a name of 110 characters and 51 of arguments
StrLongCommand ==
  CmdNameOpen \o <<"/">> \o Rep("n", 110) \o CmdNameClose
    \o CmdArgsOpen \o Rep("a", 51) \o CmdArgsClose

\* the shapes that make up most of a log
CoreShapes ==
  { Shape("user", FALSE, ContentString(StrFix), TRUE, TRUE, "prev"),
    Shape("user", FALSE, ContentArray(<<TextBlock(StrInterrupt)>>),
          TRUE, TRUE, "prev"),
    Shape("user", FALSE,
          ContentArray(<<ToolResultBlock(ToolContentString(StrOk))>>),
          TRUE, TRUE, "self"),
    Shape("user", TRUE, ContentString(StrFix), TRUE, TRUE, "dangling"),
    Shape("assistant", FALSE, ContentArray(<<TextBlock(StrDone)>>),
          TRUE, TRUE, "prev"),
    Shape("system", FALSE, ContentAbsent, TRUE, TRUE, "null") }

\* the shapes a log holds at most one entry of
RareShapes ==
  { Shape("user", FALSE, ContentString(StrInterrupt), TRUE, TRUE, "prev"),
    Shape("user", FALSE, ContentArray(<<TextBlock(StrFix)>>),
          TRUE, TRUE, "next"),
    Shape("user", FALSE, ContentString(StrLong), TRUE, TRUE, "prev"),
    Shape("user", FALSE, ContentString(StrCommand), TRUE, TRUE, "null"),
    Shape("user", FALSE, ContentString(<< >>), TRUE, TRUE, "prev"),
    Shape("user", FALSE,
          ContentArray(<<TextBlock(StrOk), TextBlock(StrInterrupt)>>),
          TRUE, TRUE, "prev"),
    Shape("user", FALSE, ContentArray(<<NullBlock>>), TRUE, TRUE, "prev"),
    Shape("assistant", FALSE,
          ContentArray(<<ThinkingBlock(StrOk), ToolUseBlock>>),
          TRUE, TRUE, "prev"),
    Shape("user", FALSE,
          ContentArray(<<TextBlock(<< >>),
                         ToolResultBlock(ToolContentString(StrLong))>>),
          TRUE, TRUE, "prev"),
    Shape("assistant", FALSE,
          ContentArray(<<ToolUseBlock, TextBlock(StrLong), TextBlock(StrOk)>>),
          TRUE, TRUE, "prev"),
    Shape("user", FALSE, ContentString(StrLongCommand), TRUE, TRUE, "prev"),
    Shape("system", FALSE, ContentArray(<<TextBlock(StrOk)>>),
          TRUE, TRUE, "null"),
    Shape("summary", FALSE, ContentAbsent, FALSE, FALSE, "null") }

\* the ways to fill n positions: core shapes, and at most one rare shape
ShapeSeqs(n) ==
  LET core == [1..n -> CoreShapes]
  IN core \cup {[g EXCEPT ![k] = x] : g \in core, k \in 1..n, x \in RareShapes}

\* where the parentUuid of the entry at position i of n points
ParentOf(parent, i, n) ==
  CASE parent = "null" -> Null
    [] parent = "prev" -> i - 1
    [] parent = "self" -> i
    [] parent = "next" -> IF i < n THEN i + 1 ELSE Null
    [] parent = "swap" -> IF i % 2 = 0 THEN i - 1
                          ELSE IF i < n THEN i + 1 ELSE Null
    [] parent = "dangling" -> n + 1

MakeEntry(shape, i, n) ==
  [type |-> shape.type,
   isMeta |-> shape.isMeta,
   uuid |-> IF shape.hasUuid THEN i ELSE Null,
   parentUuid |-> ParentOf(shape.parent, i, n),
   timestamp |-> IF shape.hasTimestamp THEN i ELSE Null,
   content |-> shape.content]

Logs ==
  UNION {{[i \in 1..n |-> MakeEntry(f[i], i, n)] : f \in ShapeSeqs(n)} :
           n \in 0..MaxLen}

\* no call of getUltimateParentType is in progress on its own
NoWalk == NewWalk(<< >>, << >>, Null)

(***************************************************************************)
(* Spec: one call of extractRounds on any log.                             *)
(***************************************************************************)
Init ==
  /\ \E entries \in Logs : pass = [p \in {1} |-> NewPass(entries)]
  /\ walk = NoWalk
  /\ scan = NoScan
  /\ ops = Idle

Next ==
  \/ \E p \in DOMAIN pass : BuildIndex(p)
  \/ \E p \in DOMAIN pass : StartRound(p)
  \/ \E p \in DOMAIN pass : AddToRound(p)
  \/ \E p \in DOMAIN pass : AddPreface(p)
  \/ \E p \in DOMAIN pass : ThrowTypeError(p)
  \/ \E p \in DOMAIN pass : Finish(p)

Spec == Init /\ [][Next]_vars

(***************************************************************************)
(* The indexes handed to getUltimateParentType on its own: a chain of len  *)
(* ids 1..len, the parent of u being u + 1.  All entries are user entries  *)
(* but the one at anchorAt (0: none), of type anchorType.  The last id     *)
(* has no parent ("null"), a parent that is no id of the index             *)
(* ("dangling"), or closes a cycle: to the first id, to the second, or to  *)
(* itself.  The walk starts at start: null, an id, or no id of the index.  *)
(***************************************************************************)
ChainLengths ==
  (1..MaxShortChain) \cup ((maxSteps - 1)..(maxSteps + ChainExtra))

AnchorPositions(len) ==
  {0} \cup {a \in 1..len :
              a <= 2 \/ a >= len - 1 \/ a \in {maxSteps, maxSteps + 1}}

Chains ==
  {[len |-> len, anchorAt |-> a, anchorType |-> t, tail |-> tail,
    start |-> s] :
     len \in ChainLengths, a \in 0..(maxSteps + ChainExtra),
     t \in {"assistant", "system"},
     tail \in {"null", "dangling", "first", "second", "self"},
     s \in {Null, 1, 2, maxSteps + ChainExtra + 1}}

ChainOk(c) ==
  /\ c.anchorAt \in AnchorPositions(c.len)
  /\ c.anchorAt = 0 => c.anchorType = "assistant"
  /\ c.tail = "second" => c.len >= 2

ChainTypes(c) ==
  [u \in 1..c.len |-> IF u = c.anchorAt THEN c.anchorType ELSE "user"]

ChainParents(c) ==
  [u \in 1..c.len |->
     IF u < c.len THEN u + 1
     ELSE CASE c.tail = "null" -> Null
            [] c.tail = "dangling" -> c.len + 1
            [] c.tail = "first" -> 1
            [] c.tail = "second" -> 2
            [] c.tail = "self" -> c.len]

(***************************************************************************)
(* SpecWalk: one call of getUltimateParentType on any chain.               *)
(***************************************************************************)
InitWalk ==
  /\ pass = << >>
  /\ scan = NoScan
  /\ ops = Idle
  /\ \E c \in Chains :
       /\ ChainOk(c)
       /\ walk = NewWalk(ChainTypes(c), ChainParents(c), c.start)

NextWalk ==
  \/ WalkCall
  \/ WalkLeave
  \/ WalkBreak
  \/ WalkFound
  \/ WalkAdvance

SpecWalk == InitWalk /\ [][NextWalk]_vars

(***************************************************************************)
(* SpecPair: two calls of extractRounds, one after the other (the program  *)
(* is single-threaded and extractRounds does not suspend), on two logs     *)
(* that differ in their parent ids alone: the entries of both have the     *)
(* same shapes, and each log is wired by one parent pattern.               *)
(***************************************************************************)
PairShapes ==
  { Shape("user", FALSE, ContentString(StrFix), TRUE, TRUE, "null"),
    Shape("user", FALSE,
          ContentArray(<<ToolResultBlock(ToolContentString(StrOk))>>),
          TRUE, TRUE, "null"),
    Shape("user", FALSE, ContentArray(<<NullBlock>>), TRUE, TRUE, "null"),
    Shape("assistant", FALSE, ContentArray(<<TextBlock(StrDone)>>),
          TRUE, TRUE, "null"),
    Shape("system", FALSE, ContentAbsent, TRUE, TRUE, "null") }

\* "swap" ties the entries in cycles of two: 1 -> 2 -> 1, 3 -> 4 -> 3
ParentPatterns == {"null", "prev", "self", "next", "swap", "dangling"}

\* the log of the shapes f with every parentUuid set by the pattern
WiredLog(f, n, pattern) ==
  [i \in 1..n |-> MakeEntry([f[i] EXCEPT !.parent = pattern], i, n)]

\* the calls before p have returned or thrown
CallsBeforeEnded(p) ==
  \A q \in DOMAIN pass : q < p => pass[q].pc \in {"done", "threw"}

InitPair ==
  /\ \E n \in 0..PairLen :
       \E f \in [1..n -> PairShapes] :
         \E first \in ParentPatterns, second \in ParentPatterns :
           pass = [p \in {1, 2} |->
                     NewPass(WiredLog(f, n, IF p = 1 THEN first ELSE second))]
  /\ walk = NoWalk
  /\ scan = NoScan
  /\ ops = Idle

NextPair ==
  \/ \E p \in DOMAIN pass : CallsBeforeEnded(p) /\ BuildIndex(p)
  \/ \E p \in DOMAIN pass : CallsBeforeEnded(p) /\ StartRound(p)
  \/ \E p \in DOMAIN pass : CallsBeforeEnded(p) /\ AddToRound(p)
  \/ \E p \in DOMAIN pass : CallsBeforeEnded(p) /\ AddPreface(p)
  \/ \E p \in DOMAIN pass : CallsBeforeEnded(p) /\ ThrowTypeError(p)
  \/ \E p \in DOMAIN pass : CallsBeforeEnded(p) /\ Finish(p)

SpecPair == InitPair /\ [][NextPair]_vars

(***************************************************************************)
(* SpecScan: one call of extractContextFields on any sequence of up to     *)
(* ScanLen entries.                                                        *)
(***************************************************************************)
\* the entries of a scan: without properties of the context, with one,
\* with several, with a property that is undefined, null or false
ScanEntries ==
  { [type |-> <<"s", "u", "m", "m", "a", "r", "y">>],
    [type |-> <<"u", "s", "e", "r">>, uuid |-> <<"1">>],
    [type |-> <<"u", "s", "e", "r">>, cwd |-> Undefined],
    [type |-> <<"u", "s", "e", "r">>, cwd |-> <<"/", "a">>],
    [type |-> <<"u", "s", "e", "r">>, cwd |-> <<"/", "b">>,
     sessionId |-> <<"s">>, version |-> <<"2">>],
    [type |-> <<"u", "s", "e", "r">>, gitBranch |-> <<"m">>,
     sessionId |-> Undefined],
    [type |-> <<"u", "s", "e", "r">>, isSidechain |-> <<"f", "a", "l", "s", "e">>],
    [type |-> <<"u", "s", "e", "r">>, thinkingMetadata |-> JsonNull],
    [type |-> <<"u", "s", "e", "r">>, userType |-> <<"x">>,
     todos |-> <<"[", "]">>],
    [type |-> <<"a">>, cwd |-> <<"/", "c">>, sessionId |-> <<"t">>,
     version |-> <<"3">>, gitBranch |-> <<"d">>, userType |-> <<"y">>,
     isSidechain |-> <<"t", "r", "u", "e">>,
     thinkingMetadata |-> <<"{", "}">>, todos |-> <<"[", "1", "]">>] }

InitScan ==
  /\ pass = << >>
  /\ walk = NoWalk
  /\ ops = Idle
  /\ \E n \in 0..ScanLen :
       \E entries \in [1..n -> ScanEntries] : scan = NewScan(entries)

NextScan ==
  \/ ScanEmptyInput
  \/ ScanCall
  \/ ScanSkip
  \/ ScanFound
  \/ ScanExhausted

SpecScan == InitScan /\ [][NextScan]_vars

(***************************************************************************)
(* SpecRestamp: the extract command up to line 254: extractContextFields   *)
(* on a session of up to RestampLen entries, then loadSystemEntries on     *)
(* any of the system files with the context found.                         *)
(***************************************************************************)
StrOld == <<"o", "l", "d">>

\* the items of the system files: with a cwd and a branch of its own and
\* an id, with a session id of its own and no id, with neither type nor
\* id nor context
StaleItem ==
  ObjectItem([type |-> <<"u", "s", "e", "r">>, uuid |-> <<"7">>,
              cwd |-> StrOld, gitBranch |-> StrOld])
StaleSessionItem ==
  ObjectItem([type |-> StrSystem, sessionId |-> StrOld])
BareItem == ObjectItem([content |-> <<"h", "i">>, uuid |-> << >>])

ParsedSystemFiles ==
  { NotJson, NotArray, JsonArray(<< >>), JsonArray(<<NullItem>>),
    JsonArray(<<StaleItem>>), JsonArray(<<StaleSessionItem>>),
    JsonArray(<<BareItem, StaleItem>>), JsonArray(<<BareItem, NullItem>>) }

\* what crypto.randomUUID() may return
GeneratedUuids == {<<"g", "1">>, <<"g", "2">>}

InitRestamp ==
  /\ pass = << >>
  /\ walk = NoWalk
  /\ ops = Idle
  /\ \E n \in 0..RestampLen :
       \E entries \in [1..n -> ScanEntries] : scan = NewScan(entries)

LoadSystemEntries ==
  /\ scan.pc = "done"
  /\ ops.op = "none"
  /\ \E parsed \in ParsedSystemFiles :
       \E uuids \in [1..Len(parsed.items) -> GeneratedUuids] :
         ops' = LoadCall(ops, parsed, scan.result, uuids)
  /\ UNCHANGED <<pass, walk, scan>>

NextRestamp ==
  \/ ScanEmptyInput
  \/ ScanCall
  \/ ScanSkip
  \/ ScanFound
  \/ ScanExhausted
  \/ LoadSystemEntries

SpecRestamp == InitRestamp /\ [][NextRestamp]_vars

(***************************************************************************)
(* SpecOps: one call of extractRounds on a log of up to OpsLen entries,    *)
(* and then any sequence of calls of listRounds, extractRound, the         *)
(* keyword filter, prependSystemEntries, extractRoundsWithThinking and     *)
(* hasThinking by consumers of the rounds.                                 *)
(***************************************************************************)
StrAddBugfix ==
  <<"A", "d", "d", " ", "b", "u", "g", "f", "i", "x", " ", "f", "o", "r",
    " ", "C", "I">>

StrRefactor == <<"R", "e", "f", "a", "c", "t", "o", "r">>

StrBugfix == <<"b", "u", "g", "f", "i", "x">>

StrFIX == <<"F", "I", "X">>

StrBlank == <<" ", "\n">>

Keywords == {StrBugfix, StrFIX}

OpsCoreShapes ==
  { Shape("user", FALSE, ContentString(StrFix), TRUE, TRUE, "prev"),
    Shape("user", FALSE, ContentString(StrAddBugfix), TRUE, TRUE, "prev") }

OpsRareShapes ==
  { Shape("user", FALSE, ContentString(StrRefactor), TRUE, TRUE, "prev"),
    Shape("assistant", FALSE,
          ContentArray(<<ThinkingBlock(StrOk), TextBlock(StrDone)>>),
          TRUE, TRUE, "prev"),
    Shape("assistant", FALSE,
          ContentArray(<<ThinkingBlock(StrBlank), ToolUseBlock>>),
          TRUE, TRUE, "prev"),
    Shape("user", FALSE,
          ContentArray(<<ToolResultBlock(ToolContentString(StrOk))>>),
          TRUE, TRUE, "prev"),
    Shape("system", FALSE, ContentAbsent, TRUE, TRUE, "null") }

OpsLogs ==
  UNION {{[i \in 1..n |-> MakeEntry(f[i], i, n)] :
            f \in [1..n -> OpsCoreShapes]
                  \cup {[g EXCEPT ![k] = x] :
                          g \in [1..n -> OpsCoreShapes], k \in 1..n,
                          x \in OpsRareShapes}} :
           n \in 0..OpsLen}

\* a system entry with an id, a timestamp and a parent
SystemEntryA ==
  [type |-> "system", isMeta |-> FALSE, uuid |-> 101, parentUuid |-> 100,
   timestamp |-> 101, content |-> ContentString(StrDone)]

\* a system entry without id and timestamp, its text longer than a preview
SystemEntryB ==
  [type |-> "user", isMeta |-> TRUE, uuid |-> Null, parentUuid |-> Null,
   timestamp |-> Null, content |-> ContentArray(<<TextBlock(StrLong)>>)]

SystemFiles == {<< >>, <<SystemEntryA>>, <<SystemEntryA, SystemEntryB>>}

\* the third argument of extractRound: left out, or given
Preambles == {<< >>, <<SystemEntryA>>, <<SystemEntryA, SystemEntryB>>}

\* the round numbers asked for: those of the extracted rounds, one below
\* and one above
RoundNumbers == -1..Len(ops.extracted)

\* the values generated in one call of prependSystemEntries, one per
\* round and system entry, drawn alike within the call
GeneratedAlike(rounds, systemEntries, value) ==
  [k \in 1..Len(rounds) |-> [i \in 1..Len(systemEntries) |-> value]]

InitOps ==
  /\ \E entries \in OpsLogs : pass = [p \in {1} |-> NewPass(entries)]
  /\ walk = NoWalk
  /\ scan = NoScan
  /\ ops = Idle

Receive(p) ==
  /\ pass[p].pc = "done"
  /\ ops.pc = "idle"
  /\ ops' = Received(pass[p].rounds)
  /\ UNCHANGED <<pass, walk, scan>>

\* another consumer takes the array extractRounds returned
Reuse ==
  /\ ops.pc = "ready"
  /\ ops' = Received(ops.extracted)
  /\ UNCHANGED <<pass, walk, scan>>

Proceed ==
  /\ ops.pc = "called"
  /\ ops' = Proceeding(ops)
  /\ UNCHANGED <<pass, walk, scan>>

ListRounds ==
  /\ ops.pc = "ready"
  /\ ops' = ListCall(ops)
  /\ UNCHANGED <<pass, walk, scan>>

ExtractRound ==
  /\ ops.pc = "ready"
  /\ \E roundNumber \in RoundNumbers, systemEntries \in Preambles :
       ops' = ExtractCall(ops, roundNumber, systemEntries)
  /\ UNCHANGED <<pass, walk, scan>>

KeywordFilter ==
  /\ ops.pc = "ready"
  /\ \E keyword \in Keywords : ops' = KeywordCall(ops, keyword)
  /\ UNCHANGED <<pass, walk, scan>>

PrependSystemEntries ==
  /\ ops.pc = "ready"
  /\ ~ops.prepended
  /\ \E systemEntries \in SystemFiles :
       \E uuid \in RandomUUIDs, timestamp \in NowTimestamps :
         ops' = PrependCall(ops, systemEntries,
                            GeneratedAlike(ops.allRounds, systemEntries, uuid),
                            GeneratedAlike(ops.allRounds, systemEntries,
                                           timestamp))
  /\ UNCHANGED <<pass, walk, scan>>

ExtractRoundsWithThinking ==
  /\ ops.pc = "ready"
  /\ ops' = ThinkingCall(ops)
  /\ UNCHANGED <<pass, walk, scan>>

HasThinking(p) ==
  /\ ops.pc = "ready"
  /\ ops' = HasThinkingCall(ops, pass[p].entries)
  /\ UNCHANGED <<pass, walk, scan>>

NextOps ==
  \/ \E p \in DOMAIN pass : BuildIndex(p)
  \/ \E p \in DOMAIN pass : StartRound(p)
  \/ \E p \in DOMAIN pass : AddToRound(p)
  \/ \E p \in DOMAIN pass : AddPreface(p)
  \/ \E p \in DOMAIN pass : Finish(p)
  \/ \E p \in DOMAIN pass : Receive(p)
  \/ Reuse
  \/ Proceed
  \/ ListRounds
  \/ ExtractRound
  \/ KeywordFilter
  \/ PrependSystemEntries
  \/ ExtractRoundsWithThinking
  \/ \E p \in DOMAIN pass : HasThinking(p)

SpecOps == InitOps /\ [][NextOps]_vars

(***************************************************************************)
(* SpecInterleaved: two calls of extractRounds on logs of their own, the   *)
(* steps of the two taken in any order.  The logs use the same ids, so a   *)
(* map shared by the calls would mix their chains.                         *)
(***************************************************************************)
\* one step of a call on its own: the maps, one entry of the loop, or the
\* push after the loop; a generated id or time is the least of its kind
extractRoundsStep(s) ==
  IF s.pc = "index" THEN IndexBuilt(s)
  ELSE IF AtEntry(s) THEN
    LET uuid == CHOOSE u \in UuidChoices(Entry(s)) :
                  \A v \in UuidChoices(Entry(s)) : u <= v
        timestamp == CHOOSE t \in TimestampChoices(Entry(s)) :
                       \A v \in TimestampChoices(Entry(s)) : t <= v
        roundEntry == RoundEntryOf(Entry(s), uuid, timestamp)
    IN IF BodyThrows(Entry(s)) THEN [s EXCEPT !.pc = "threw"]
       ELSE IF isNewRoundStart(Entry(s), UltimateParentTypeOf(s))
         THEN SealAndStart(s, roundEntry)
       ELSE IF Len(s.currentRoundEntries) > 0
         THEN PushToCurrent(s, roundEntry)
       ELSE PushPreface(s, roundEntry)
  ELSE IF s.pc = "loop" THEN SealLast(s)
  ELSE s

\* the call on the entries after n steps taken with no other call about
RECURSIVE extractRoundsAfter(_, _)
extractRoundsAfter(entries, n) ==
  IF n = 0 THEN NewPass(entries)
  ELSE extractRoundsStep(extractRoundsAfter(entries, n - 1))

\* the rounds the call returns
extractRounds(entries) ==
  extractRoundsAfter(entries, Len(entries) + 2).rounds

InterleavedShapes ==
  { Shape("user", FALSE, ContentString(StrFix), TRUE, TRUE, "prev"),
    Shape("user", FALSE,
          ContentArray(<<ToolResultBlock(ToolContentString(StrOk))>>),
          TRUE, TRUE, "prev"),
    Shape("assistant", FALSE, ContentArray(<<TextBlock(StrDone)>>),
          TRUE, TRUE, "prev") }

InterleavedLogs ==
  UNION {{[i \in 1..n |-> MakeEntry(f[i], i, n)] :
            f \in [1..n -> InterleavedShapes]} : n \in 0..InterleavedLen}

InitInterleaved ==
  /\ pass \in [{1, 2} -> {NewPass(entries) : entries \in InterleavedLogs}]
  /\ walk = NoWalk
  /\ scan = NoScan
  /\ ops = Idle

NextInterleaved ==
  \/ \E p \in DOMAIN pass : BuildIndex(p)
  \/ \E p \in DOMAIN pass : StartRound(p)
  \/ \E p \in DOMAIN pass : AddToRound(p)
  \/ \E p \in DOMAIN pass : AddPreface(p)
  \/ \E p \in DOMAIN pass : Finish(p)

SpecInterleaved == InitInterleaved /\ [][NextInterleaved]_vars

(***************************************************************************)
(* Vocabulary of the properties.                                           *)
(***************************************************************************)
\* the call p has returned
Returned(p) == pass[p].pc = "done"

\* the entries of the rounds, in round order
RECURSIVE Flatten(_)
Flatten(rounds) ==
  IF rounds = << >> THEN << >>
  ELSE Head(rounds).entries \o Flatten(Tail(rounds))

\* the number of entries in the rounds before the k-th
Before(rounds, k) == Len(Flatten(SubSeq(rounds, 1, k - 1)))

\* the index of the round that holds the i-th entry of the rounds
RoundOf(rounds, i) ==
  CHOOSE k \in 1..Len(rounds) :
    Before(rounds, k) < i /\ i <= Before(rounds, k) + Len(rounds[k].entries)

\* the entry qualifies as a round start (its own properties decide)
Qualifies(entry) == isNewRoundStart(entry, "null")

\* the positions of a log whose entry qualifies
QualifyingAt(entries) == {i \in 1..Len(entries) : Qualifies(entries[i])}

\* the first position whose entry qualifies, Len(entries) + 1 if none
FirstQualifying(entries) ==
  IF QualifyingAt(entries) = {} THEN Len(entries) + 1
  ELSE CHOOSE i \in QualifyingAt(entries) :
         \A j \in QualifyingAt(entries) : i <= j

\* a tool-result echo, an interrupt notice or a meta entry of role user
Disqualified(entry) ==
  /\ entry.type = "user"
  /\ entry.isMeta \/ isToolResult(entry) \/ isInterruptMessage(entry)

(***************************************************************************)
(* C1: the entries of the returned rounds, concatenated in round order,    *)
(* are the input entries: as many, in log order, each with the type and    *)
(* parent of its entry, its id and timestamp where the entry has them,     *)
(* and the serialization of the entry as rawContent, which parses back to  *)
(* the entry.                                                              *)
(***************************************************************************)
C1_RoundsPartitionInput ==
  \A p \in DOMAIN pass :
    Returned(p) =>
      LET all == Flatten(pass[p].rounds)
          entries == pass[p].entries
      IN /\ Len(all) = Len(entries)
         /\ \A i \in 1..Len(entries) :
              /\ all[i].rawContent = JSONStringify(entries[i])
              /\ JSONParse(all[i].rawContent) = entries[i]
              /\ all[i].type = entries[i].type
              /\ all[i].parentUuid = entries[i].parentUuid
              /\ entries[i].uuid # Null => all[i].uuid = entries[i].uuid
              /\ entries[i].timestamp # Null =>
                   all[i].timestamp = entries[i].timestamp

\* a returned pass over a full-length log with two rounds or more
C1_Witness ==
  \E p \in DOMAIN pass :
    /\ Returned(p)
    /\ Len(pass[p].entries) = MaxLen
    /\ Len(pass[p].rounds) >= 2
    /\ Len(pass[p].rounds[1].entries) >= 2

(***************************************************************************)
(* C2: the k-th returned round, counted from 0, has roundNumber k.         *)
(***************************************************************************)
C2_RoundNumbersContiguous ==
  \A p \in DOMAIN pass :
    Returned(p) =>
      \A k \in 1..Len(pass[p].rounds) : pass[p].rounds[k].roundNumber = k - 1

\* a returned pass with three rounds
C2_Witness ==
  \E p \in DOMAIN pass : Returned(p) /\ Len(pass[p].rounds) >= 3

RECURSIVE JoinTexts(_)
JoinTexts(items) ==
  IF items = << >> THEN << >>
  ELSE (IF Head(items).type = "text" /\ Head(items).text # Undefined
        THEN Head(items).text ELSE << >>) \o JoinTexts(Tail(items))

MessageText(entry) ==
  IF entry.content.kind = "string" THEN entry.content.text
  ELSE IF entry.content.kind = "array" THEN JoinTexts(entry.content.items)
  ELSE Undefined

\* the first text block of block content carries the text t
FirstTextIs(entry, t) ==
  /\ entry.content.kind = "array"
  /\ FindIndex(entry.content.items, "text") # 0
  /\ entry.content.items[FindIndex(entry.content.items, "text")].text = t

\* C4 as claimed: a user entry whose message text is the interrupt notice,
\* carried as a string or as a text block, joins the round in progress.
C4_Original_InterruptTextJoinsRound ==
  \A p \in DOMAIN pass :
    Returned(p) =>
      \A i \in 2..Len(pass[p].entries) :
        (/\ pass[p].entries[i].type = "user"
         /\ MessageText(pass[p].entries[i]) = StrInterrupt) =>
          RoundOf(pass[p].rounds, i) = RoundOf(pass[p].rounds, i - 1)

(***************************************************************************)
(* C4, amended: a user entry whose first text block carries the interrupt  *)
(* notice joins the round in progress; a user entry that is not meta and   *)
(* carries it as plain-string content starts a new round.                  *)
(***************************************************************************)
C4_InterruptBlockJoinsRound ==
  \A p \in DOMAIN pass :
    Returned(p) =>
      \A i \in 2..Len(pass[p].entries) :
        LET entry == pass[p].entries[i]
            here == RoundOf(pass[p].rounds, i)
            before == RoundOf(pass[p].rounds, i - 1)
        IN /\ (entry.type = "user" /\ FirstTextIs(entry, StrInterrupt)) =>
                here = before
           /\ (/\ entry.type = "user"
               /\ ~entry.isMeta
               /\ entry.content = ContentString(StrInterrupt)) =>
                here = before + 1

\* a returned pass where the interrupt notice, as a text block, follows an
\* assistant entry of a round a user message started
C4_Witness ==
  \E p \in DOMAIN pass :
    /\ Returned(p)
    /\ Len(pass[p].entries) >= 3
    /\ Qualifies(pass[p].entries[1])
    /\ pass[p].entries[2].type = "assistant"
    /\ pass[p].entries[3].type = "user"
    /\ FirstTextIs(pass[p].entries[3], StrInterrupt)
    /\ Len(pass[p].rounds) = 1
    /\ Len(pass[p].rounds[1].entries) = 3

(***************************************************************************)
(* C5.  The boundaries of a result: the number of each round and the       *)
(* number of its entries, in order.                                        *)
(***************************************************************************)
Boundaries(rounds) ==
  [k \in 1..Len(rounds) |-> <<rounds[k].roundNumber, Len(rounds[k].entries)>>]

\* the entry without its parent id
WithoutParent(entry) == [entry EXCEPT !.parentUuid = Null]

\* two logs that are the same but for their parent ids
SameButParents(a, b) ==
  /\ Len(a) = Len(b)
  /\ \A i \in 1..Len(a) : WithoutParent(a[i]) = WithoutParent(b[i])

SingleRequestLog(entries) ==
  /\ Len(entries) >= 1
  /\ Qualifies(entries[1])
  /\ \A i \in 2..Len(entries) :
       entries[i].type = "assistant" \/ isToolResult(entries[i])

\* the number of rounds extractRounds is to return
ExpectedRounds(entries) ==
  Cardinality(QualifyingAt(entries))
    + (IF Len(entries) > 0 /\ ~Qualifies(entries[1]) THEN 1 ELSE 0)

\* the count, the empty log and the single round of a single-request log,
\* without its summary
RoundCount(p) ==
  LET entries == pass[p].entries
      rounds == pass[p].rounds
  IN /\ Len(rounds) = ExpectedRounds(entries)
     /\ entries = << >> => rounds = << >>
     /\ SingleRequestLog(entries) =>
          /\ Len(rounds) = 1
          /\ rounds[1].roundNumber = 0
          /\ Len(rounds[1].entries) = Len(entries)

\* C6 as claimed: the round of a single-request log is summarised by the
\* text of its user entry.
C6_Original_SummaryIsUserText ==
  \A p \in DOMAIN pass :
    Returned(p) =>
      /\ RoundCount(p)
      /\ SingleRequestLog(pass[p].entries) =>
           pass[p].rounds[1].summary = MessageText(pass[p].entries[1])

(***************************************************************************)
(* C6, amended: as many rounds as qualifying entries, plus one when the    *)
(* log is not empty and its first entry does not qualify; no round for     *)
(* the empty log; a single-request log yields one round, numbered 0, with  *)
(* all entries, summarised by the preview of its user entry whenever that  *)
(* preview is not empty and does not begin with '['.                       *)
(***************************************************************************)
C6_RoundCountAndSummary ==
  \A p \in DOMAIN pass :
    Returned(p) =>
      /\ RoundCount(p)
      /\ LET preview == getDisplayContent(pass[p].entries[1])
         IN (/\ SingleRequestLog(pass[p].entries)
             /\ Truthy(preview)
             /\ ~StartsWith(preview, <<"[">>)) =>
              pass[p].rounds[1].summary = preview

\* the scenario of a request, a reply and a tool-result echo: one round,
\* numbered 0, summarised "Fix the bug"
C6_Witness ==
  \E p \in DOMAIN pass :
    /\ Returned(p)
    /\ Len(pass[p].entries) >= 3
    /\ SingleRequestLog(pass[p].entries)
    /\ pass[p].entries[1].content = ContentString(StrFix)
    /\ pass[p].entries[2].type = "assistant"
    /\ isToolResult(pass[p].entries[3])
    /\ Len(pass[p].rounds) = 1
    /\ pass[p].rounds[1].roundNumber = 0
    /\ pass[p].rounds[1].summary = StrFix

(***************************************************************************)
(* C7: when the first entry does not qualify, round 0 holds exactly the    *)
(* entries before the first qualifying entry (all entries when none        *)
(* qualifies), and the first qualifying entry is the first of round 1.     *)
(***************************************************************************)
C7_PrefaceRound ==
  \A p \in DOMAIN pass :
    (/\ Returned(p)
     /\ pass[p].entries # << >>
     /\ ~Qualifies(pass[p].entries[1])) =>
      LET entries == pass[p].entries
          rounds == pass[p].rounds
          q == FirstQualifying(entries)
      IN /\ Len(rounds) >= 1
         /\ rounds[1].roundNumber = 0
         /\ Len(rounds[1].entries) = q - 1
         /\ \A i \in 1..(q - 1) :
              rounds[1].entries[i].rawContent = JSONStringify(entries[i])
         /\ q <= Len(entries) =>
              /\ Len(rounds) >= 2
              /\ rounds[2].roundNumber = 1
              /\ rounds[2].entries[1].rawContent = JSONStringify(entries[q])

\* a returned pass whose log begins with two entries that do not qualify,
\* followed by one that does
C7_Witness ==
  \E p \in DOMAIN pass :
    /\ Returned(p)
    /\ Len(pass[p].entries) >= 3
    /\ FirstQualifying(pass[p].entries) = 3
    /\ Len(pass[p].rounds) = 2
    /\ Len(pass[p].rounds[1].entries) = 2
    /\ pass[p].rounds[2].roundNumber = 1

(***************************************************************************)
(* Vocabulary of the properties of getUltimateParentType.                  *)
(***************************************************************************)
\* the first n ids of the parent chain that starts at u
RECURSIVE ChainFrom(_, _, _)
ChainFrom(uuidToParent, u, n) ==
  IF u = Null \/ n = 0 THEN << >>
  ELSE <<u>> \o ChainFrom(uuidToParent, MapGet(uuidToParent, u, Null), n - 1)

\* the ids of the index, and one more: no chain without a repeat is longer
WholeChain(w) ==
  ChainFrom(w.uuidToParent, w.uuid, Cardinality(DOMAIN w.uuidToParent) + 1)

\* the role of the first assistant or system id of a chain, "null" if none
FirstAnchorRole(uuidToType, chain) ==
  LET hits == {k \in 1..Len(chain) :
                 MapGet(uuidToType, chain[k], "undefined")
                   \in {"assistant", "system"}}
  IN IF hits = {} THEN "null"
     ELSE uuidToType[chain[CHOOSE k \in hits : \A j \in hits : k <= j]]

\* the parent chain that starts at u, up to its first repeat
ChainOf(uuidToParent, u) ==
  ChainFrom(uuidToParent, u, Cardinality(DOMAIN uuidToParent) + 1)

\* the id u lies on a cycle of parent pointers: its chain comes back to it
OnCycle(uuidToParent, u) ==
  /\ u \in DOMAIN uuidToParent
  /\ LET chain == ChainOf(uuidToParent, u)
     IN \E k \in 2..Len(chain) : chain[k] = u

\* the ids of the cycle through u, for u on a cycle
CycleOf(uuidToParent, u) ==
  LET chain == ChainOf(uuidToParent, u)
  IN {chain[k] : k \in 1..Len(chain)}

\* the call has returned
WalkReturned == walk.pc = "done"

\* the call is not stuck: it has returned or can take a step
WalkProgresses == WalkReturned \/ ENABLED NextWalk

\* C8 as claimed: started on an id of a cycle the walk returns null.
C8_Original_CycleReturnsNull ==
  (WalkReturned /\ OnCycle(walk.uuidToParent, walk.uuid)) =>
    walk.result = "null"

(***************************************************************************)
(* C8, amended: started on an id of a cycle, the walk terminates: it is    *)
(* never stuck, every pass of the loop that goes on to a parent has taken  *)
(* a new id of the cycle, so that there are no more passes than ids on     *)
(* the cycle; and it returns null when no id of the cycle is an assistant  *)
(* or system entry.                                                        *)
(***************************************************************************)
C8_CycleTerminates ==
  (walk.pc # "call" /\ walk.uuid \in DOMAIN walk.uuidToParent) =>
    (OnCycle(walk.uuidToParent, walk.uuid) =>
      LET cycle == CycleOf(walk.uuidToParent, walk.uuid)
      IN /\ WalkProgresses
         /\ walk.visited \subseteq cycle
         /\ walk.steps <= Cardinality(walk.visited)
         /\ walk.steps <= Cardinality(cycle)
         /\ (/\ WalkReturned
             /\ \A v \in cycle : walk.uuidToType[v] \notin {"assistant", "system"})
              => walk.result = "null")

\* a walk that went round a cycle of two ids or more without an assistant
\* or system id, met its first id again and returned null
C8_Witness ==
  /\ WalkReturned
  /\ OnCycle(walk.uuidToParent, walk.uuid)
  /\ Cardinality(walk.visited) >= 2
  /\ walk.visited = CycleOf(walk.uuidToParent, walk.uuid)
  /\ walk.currentUuid = walk.uuid
  /\ walk.result = "null"

\* C9 as claimed: the role of the first assistant or system id anywhere on
\* the parent chain, null when there is none.
C9_Original_FirstAnchorOnChain ==
  WalkReturned =>
    walk.result = FirstAnchorRole(walk.uuidToType, WholeChain(walk))

(***************************************************************************)
(* C9, amended: the walk returns the role of the first assistant or        *)
(* system id among the first 100 ids of the parent chain that starts with  *)
(* its argument; it returns null when there is none: the argument is       *)
(* absent, or the chain ends in an id without parent or in an id that      *)
(* names no entry, or repeats, or has 100 ids of other roles first.        *)
(***************************************************************************)
C9_FirstAnchorWithinCap ==
  WalkReturned =>
    walk.result =
      FirstAnchorRole(walk.uuidToType,
                      ChainFrom(walk.uuidToParent, walk.uuid, maxSteps))

\* a walk that passed a user id, came to a system id and returned its role
C9_Witness ==
  /\ WalkReturned
  /\ walk.result = "system"
  /\ walk.steps >= 1
  /\ walk.uuid # walk.currentUuid

(***************************************************************************)
(* C10: a call inspects at most 100 ids; when the first 100 ids of a       *)
(* chain without a repeat are neither assistant nor system it returns      *)
(* null, whatever lies further up.                                         *)
(***************************************************************************)
C10_HopCap ==
  /\ Cardinality(walk.visited) <= maxSteps
  /\ walk.steps <= maxSteps
  /\ WalkReturned =>
       LET chain == ChainFrom(walk.uuidToParent, walk.uuid, maxSteps)
       IN (/\ Len(chain) = maxSteps
           /\ \A j, k \in 1..maxSteps : j # k => chain[j] # chain[k]
           /\ FirstAnchorRole(walk.uuidToType, chain) = "null")
            => walk.result = "null"

\* a walk over 100 user ids whose 101st id is an assistant or system id:
\* it stopped at the 101st id and returned null
C10_Witness ==
  /\ WalkReturned
  /\ walk.result = "null"
  /\ walk.steps = maxSteps
  /\ Cardinality(walk.visited) = maxSteps
  /\ MapGet(walk.uuidToType, walk.currentUuid, "undefined")
       \in {"assistant", "system"}
  /\ ~OnCycle(walk.uuidToParent, walk.uuid)

(***************************************************************************)
(* Vocabulary of the summary properties.                                   *)
(***************************************************************************)
\* a preview that can serve as a summary: a user entry's, non-empty, not
\* starting with '['
Meaningful(roundEntry) ==
  /\ roundEntry.type = "user"
  /\ roundEntry.displayContent # Undefined
  /\ roundEntry.displayContent # << >>
  /\ Head(roundEntry.displayContent) # "["

MeaningfulAt(round) ==
  {i \in 1..Len(round.entries) : Meaningful(round.entries[i])}

\* the first entry of the round with a meaningful preview
FirstMeaningful(round) ==
  round.entries[CHOOSE i \in MeaningfulAt(round) :
                  \A j \in MeaningfulAt(round) : i <= j]

RoundLabel(round) == StrRound \o NumStr(round.roundNumber)

\* the rounds of the calls that have returned
ReturnedRounds ==
  UNION {{pass[p].rounds[k] : k \in 1..Len(pass[p].rounds)} :
           p \in {q \in DOMAIN pass : Returned(q)}}

(***************************************************************************)
(* C11 as stated: the summary of a round is the preview of its first user  *)
(* entry with a non-empty preview that does not start with '['; without    *)
(* such an entry it is the preview of the round's first entry; and it is   *)
(* the label "Round N" only when that entry has no preview.                *)
(***************************************************************************)
C11_Original_LabelOnlyWithoutPreview ==
  \A round \in ReturnedRounds :
    IF MeaningfulAt(round) # {}
    THEN round.summary = FirstMeaningful(round).displayContent
    ELSE IF round.entries[1].displayContent # Undefined
         THEN round.summary = round.entries[1].displayContent
         ELSE round.summary = RoundLabel(round)

(***************************************************************************)
(* C11: the summary of a round is the preview of its first user entry      *)
(* with a non-empty preview that does not start with '['; without such an  *)
(* entry it is the preview of the round's first entry when that preview    *)
(* is non-empty, and the label "Round N", N the round's number, when the   *)
(* first entry has no preview or an empty one, whatever previews the       *)
(* later entries of the round have.                                        *)
(***************************************************************************)
C11_SummaryDerivation ==
  \A round \in ReturnedRounds :
    IF MeaningfulAt(round) # {}
    THEN round.summary = FirstMeaningful(round).displayContent
    ELSE IF round.entries[1].displayContent \notin {Undefined, << >>}
         THEN round.summary = round.entries[1].displayContent
         ELSE round.summary = RoundLabel(round)

\* a call that returned three kinds of round: one summarised by an entry
\* that is not its first, one by the '['-prefixed preview of its first
\* entry, and one labelled although a later entry of it has a preview
C11_Witness ==
  \E p \in DOMAIN pass :
    /\ Returned(p)
    /\ \E k \in 1..Len(pass[p].rounds) :
         LET round == pass[p].rounds[k]
         IN /\ MeaningfulAt(round) # {}
            /\ 1 \notin MeaningfulAt(round)
            /\ round.summary = FirstMeaningful(round).displayContent
    /\ \E k \in 1..Len(pass[p].rounds) :
         LET round == pass[p].rounds[k]
         IN /\ MeaningfulAt(round) = {}
            /\ round.summary = RoundLabel(round)
    /\ Len(pass[p].rounds) >= 2

\* a round whose first entry has no preview and whose second entry has
\* one: the summary is the label
LabelBesidePreview ==
  \E round \in ReturnedRounds :
    /\ Len(round.entries) >= 2
    /\ round.entries[1].displayContent = Undefined
    /\ round.entries[2].displayContent # Undefined
    /\ round.summary = RoundLabel(round)

(***************************************************************************)
(* C12: every returned round holds at least one entry; its startUuid and   *)
(* startTimestamp are the uuid and the timestamp of the first entry of     *)
(* its entry list and its endTimestamp is the timestamp of the last.       *)
(***************************************************************************)
C12_RoundBounds ==
  \A round \in ReturnedRounds :
    /\ Len(round.entries) >= 1
    /\ round.startUuid = round.entries[1].uuid
    /\ round.startTimestamp = round.entries[1].timestamp
    /\ round.endTimestamp = round.entries[Len(round.entries)].timestamp

\* a returned round of several entries whose last timestamp is not its
\* first, beside another round
C12_Witness ==
  \E p \in DOMAIN pass :
    /\ Returned(p)
    /\ Len(pass[p].rounds) >= 2
    /\ \E k \in 1..Len(pass[p].rounds) :
         LET round == pass[p].rounds[k]
         IN /\ Len(round.entries) >= 2
            /\ round.endTimestamp # round.startTimestamp
            /\ round.startUuid = round.entries[1].uuid

(***************************************************************************)
(* Vocabulary of the context properties.                                   *)
(***************************************************************************)
CanonicalFields ==
  {"cwd", "sessionId", "version", "gitBranch", "userType", "isSidechain",
   "thinkingMetadata", "todos"}

\* the entry carries the field: it has the property, with a value
Carries(entry, field) == field \in DOMAIN entry /\ entry[field] # Undefined

CarriedBy(entry) == {field \in CanonicalFields : Carries(entry, field)}

\* the positions of the entries that carry a canonical field
Carriers(entries) == {i \in 1..Len(entries) : CarriedBy(entries[i]) # {}}

FirstCarrier(entries) ==
  CHOOSE i \in Carriers(entries) : \A j \in Carriers(entries) : i <= j

ScanReturned == scan.pc = "done"

(***************************************************************************)
(* C13: extractContextFields returns the canonical context fields of the   *)
(* first entry, in log order, that carries one, each with that entry's     *)
(* value and no other field, so none that only a later entry carries; it   *)
(* returns the empty mapping when no entry carries one and when the input  *)
(* is empty.                                                               *)
(***************************************************************************)
C13_ContextOfFirstCarrier ==
  ScanReturned =>
    /\ scan.result = extractContextFields(scan.entries)
    /\ IF Carriers(scan.entries) = {}
       THEN DOMAIN scan.result = {}
       ELSE LET first == scan.entries[FirstCarrier(scan.entries)]
            IN /\ DOMAIN scan.result = CarriedBy(first)
               /\ \A field \in CarriedBy(first) :
                    scan.result[field] = first[field]

\* the first carrier is not the first entry, and an entry behind it
\* carries a field that it does not: the field is not returned
C13_Witness ==
  /\ ScanReturned
  /\ Carriers(scan.entries) # {}
  /\ FirstCarrier(scan.entries) > 1
  /\ \E j \in Carriers(scan.entries), field \in CanonicalFields :
       /\ j > FirstCarrier(scan.entries)
       /\ Carries(scan.entries[j], field)
       /\ ~Carries(scan.entries[FirstCarrier(scan.entries)], field)
       /\ field \notin DOMAIN scan.result

(***************************************************************************)
(* Vocabulary of the properties of the consumer's calls.                   *)
(***************************************************************************)
\* the call of op has returned
Called(op) == ops.pc = "called" /\ ops.op = op

\* the rounds extractRounds returned to the consumer
Segmentation == pass[1].rounds

HasNumber(rounds, n) == \E k \in 1..Len(rounds) : rounds[k].roundNumber = n

Summaries(rounds) == [k \in 1..Len(rounds) |-> rounds[k].summary]

\* the entries the rounds were made of, as JSON.parse gives them
RawEntries(round) ==
  [i \in 1..Len(round.entries) |-> JSONParse(round.entries[i].rawContent)]

(***************************************************************************)
(* C14: extractRound returns null exactly when no round of the collection  *)
(* it is given has the requested number, and leaves the collection as it   *)
(* was; on the rounds extractRounds returned, N of them, that is exactly   *)
(* when the number is outside 0..N-1; on null main prints no round and     *)
(* exits with the error code.                                              *)
(***************************************************************************)
C14_NotFoundIffNumberAbsent ==
  Called("extractRound") =>
    /\ ops.content.isNull <=> ~HasNumber(ops.rounds, ops.roundNumber)
    /\ ops.allRounds = ops.rounds
    /\ ops.extracted = Segmentation
    /\ ops.rounds = Segmentation =>
         (ops.content.isNull
            <=> ops.roundNumber \notin 0..(Len(Segmentation) - 1))
    /\ ops.content.isNull => ops.exitCode = 1 /\ ops.stdout.isNull
    /\ ~ops.content.isNull => ops.exitCode = 0 /\ ops.stdout = ops.content

\* null for a number that a round of the segmentation has and no round of
\* the filtered collection at hand, and main exits with code 1
C14_Witness ==
  /\ Called("extractRound")
  /\ ops.content.isNull
  /\ ops.exitCode = 1
  /\ Len(ops.rounds) >= 1
  /\ HasNumber(Segmentation, ops.roundNumber)
  /\ ops.roundNumber < ops.rounds[Len(ops.rounds)].roundNumber

(***************************************************************************)
(* C15: listRounds on the result of prependSystemEntries with k system     *)
(* entries reports as many rounds as on the collection before, in the      *)
(* same order (the same numbers), each with an entry count larger by k.    *)
(***************************************************************************)
C15_EntryCountGrowsByK ==
  Called("prependSystemEntries") =>
    LET before == listRounds(ops.rounds, FilePath)
        after == listRounds(ops.returned, FilePath)
    IN /\ after.totalRounds = before.totalRounds
       /\ Len(after.rounds) = Len(before.rounds)
       /\ \A j \in 1..Len(before.rounds) :
            /\ after.rounds[j].number = before.rounds[j].number
            /\ after.rounds[j].entryCount
                 = before.rounds[j].entryCount + Len(ops.systemEntries)

\* two system entries put before several rounds that differ in size
C15_Witness ==
  /\ Called("prependSystemEntries")
  /\ Len(ops.systemEntries) = 2
  /\ Len(ops.rounds) >= 2
  /\ Len(ops.rounds[1].entries) # Len(ops.rounds[2].entries)
  /\ listRounds(ops.returned, FilePath).rounds[2].entryCount
       = Len(ops.rounds[2].entries) + 2

(***************************************************************************)
(* C16: prependSystemEntries puts a round entry for each given system      *)
(* entry, in the given order, with the type and the serialization of the   *)
(* system entry and parentUuid null, before the entries of every round,    *)
(* which follow unchanged and in order; roundNumber, startUuid,            *)
(* startTimestamp, endTimestamp and summary of every round stay, so that   *)
(* startUuid and startTimestamp are those of the round's original first    *)
(* entry, not of the entry now at the front.                               *)
(***************************************************************************)
C16_PrependKeepsRoundAttributes ==
  Called("prependSystemEntries") =>
    LET k == Len(ops.systemEntries)
    IN /\ Len(ops.returned) = Len(ops.rounds)
       /\ \A j \in 1..Len(ops.rounds) :
            LET old == ops.rounds[j]
                new == ops.returned[j]
            IN /\ Len(new.entries) = k + Len(old.entries)
               /\ \A i \in 1..k :
                    /\ new.entries[i].type = ops.systemEntries[i].type
                    /\ new.entries[i].rawContent
                         = JSONStringify(ops.systemEntries[i])
                    /\ new.entries[i].parentUuid = Null
                    /\ ops.systemEntries[i].uuid # Null =>
                         new.entries[i].uuid = ops.systemEntries[i].uuid
               /\ SubSeq(new.entries, k + 1, Len(new.entries)) = old.entries
               /\ new.roundNumber = old.roundNumber
               /\ new.startUuid = old.startUuid
               /\ new.startTimestamp = old.startTimestamp
               /\ new.endTimestamp = old.endTimestamp
               /\ new.summary = old.summary
               /\ new.startUuid = old.entries[1].uuid
               /\ new.startTimestamp = old.entries[1].timestamp

\* two system entries, the first with a parent, before the entries of
\* several rounds: the start id is not the id of the entry at the front
C16_Witness ==
  /\ Called("prependSystemEntries")
  /\ Len(ops.systemEntries) = 2
  /\ ops.systemEntries[1].parentUuid # Null
  /\ Len(ops.returned) >= 2
  /\ \A j \in 1..Len(ops.returned) :
       /\ ops.returned[j].startUuid # ops.returned[j].entries[1].uuid
       /\ ops.returned[j].startUuid = ops.returned[j].entries[3].uuid
       /\ ops.returned[j].entries[1].parentUuid = Null

(***************************************************************************)
(* C17: whatever calls of listRounds, extractRound, the keyword filter,    *)
(* prependSystemEntries and extractRoundsWithThinking the consumers have   *)
(* made, the array extractRounds returned holds the rounds it held on      *)
(* return, each with its number, start id, timestamps, summary and         *)
(* entries, and a call leaves the collection it is given as it was.        *)
(***************************************************************************)
C17_SegmentationNeverChanges ==
  ops.pc # "idle" =>
    /\ ops.extracted = Segmentation
    /\ \A k \in 1..Len(ops.extracted) :
         /\ ops.extracted[k].roundNumber = k - 1
         /\ ops.extracted[k].startUuid = ops.extracted[k].entries[1].uuid
    /\ ops.pc = "called" /\ ops.op \in {"listRounds", "extractRound"} =>
         ops.allRounds = ops.rounds

\* the third call in a row that returned a collection: a keyword filter
\* that dropped a round, prependSystemEntries, and now
\* extractRoundsWithThinking dropping another
C17_Witness ==
  /\ Called("extractRoundsWithThinking")
  /\ ops.prepended
  /\ Len(ops.returned) < Len(ops.rounds)
  /\ Len(ops.rounds) < Len(ops.extracted)
  /\ ops.extracted = Segmentation

(***************************************************************************)
(* Vocabulary of the keyword properties.                                   *)
(***************************************************************************)
\* the same character, or the two cases of one letter
SameIgnoringCase(a, b) ==
  \/ a = b
  \/ \E k \in 1..26 :
       {a, b} = {UpperCaseLetters[k], LowerCaseLetters[k]}

\* keyword occurs in summary, the case of letters ignored
ContainsIgnoringCase(summary, keyword) ==
  \E offset \in 0..(Len(summary) - Len(keyword)) :
    \A i \in 1..Len(keyword) :
      SameIgnoringCase(summary[offset + i], keyword[i])

\* the rounds whose summary contains the keyword, in the order of rounds
Containing(rounds, keyword) ==
  LET Has(round) == ContainsIgnoringCase(round.summary, keyword)
  IN SelectSeq(rounds, Has)

(***************************************************************************)
(* C18: the keyword filter returns the rounds whose summary contains the   *)
(* keyword, the case of letters ignored on both sides, in the order of     *)
(* the collection; from rounds summarised "Fix the bug", "Add bugfix for   *)
(* CI" and "Refactor" the keyword "bugfix" selects only the second.        *)
(***************************************************************************)
C18_KeywordFilterSelects ==
  Called("filter") =>
    /\ ops.returned = Containing(ops.rounds, ops.keyword)
    /\ Summaries(ops.rounds) = <<StrFix, StrAddBugfix, StrRefactor>>
         /\ ops.keyword = StrBugfix
       => Summaries(ops.returned) = <<StrAddBugfix>>

\* the scenario: three rounds, keyword "bugfix", the second round returned
C18_Witness ==
  /\ Called("filter")
  /\ Summaries(ops.rounds) = <<StrFix, StrAddBugfix, StrRefactor>>
  /\ ops.keyword = StrBugfix
  /\ Summaries(ops.returned) = <<StrAddBugfix>>
  /\ ops.returned[1].roundNumber = 1

(***************************************************************************)
(* C19: filtering the result of the keyword filter again by the same       *)
(* keyword returns that result: a collection in which every summary        *)
(* contains the keyword is returned as it is.                              *)
(***************************************************************************)
C19_KeywordFilterIdempotent ==
  Called("filter") =>
    /\ matchedRounds(ops.returned, ops.keyword) = ops.returned
    /\ (\A k \in 1..Len(ops.rounds) :
          KeywordMatches(ops.rounds[k], ops.keyword))
       => ops.returned = ops.rounds

\* the filter called on a collection that a filter by the same keyword
\* has already reduced to two rounds
C19_Witness ==
  /\ Called("filter")
  /\ Len(ops.rounds) >= 2
  /\ Len(ops.rounds) < Len(ops.extracted)
  /\ \A k \in 1..Len(ops.rounds) : KeywordMatches(ops.rounds[k], ops.keyword)
  /\ ops.returned = ops.rounds
  /\ ~ops.prepended

(***************************************************************************)
(* Vocabulary of the thinking properties.                                  *)
(***************************************************************************)
\* a thinking block whose text has a character that is not white space
ThinkingBlockWithText(block) ==
  /\ block.type = "thinking"
  /\ block.thinking # Undefined
  /\ \E i \in 1..Len(block.thinking) : block.thinking[i] \notin WhiteSpace

\* an entry whose content is a block sequence with such a block
EntryWithThinking(entry) ==
  /\ entry.content.kind = "array"
  /\ \E i \in 1..Len(entry.content.items) :
       ThinkingBlockWithText(entry.content.items[i])

BlankThinkingIgnored ==
  /\ Called("extractRoundsWithThinking")
  /\ ops.rounds = Segmentation
  /\ ops.returned = << >>
  /\ \E i \in 1..Len(pass[1].entries) :
       /\ pass[1].entries[i].content.kind = "array"
       /\ \E j \in 1..Len(pass[1].entries[i].content.items) :
            pass[1].entries[i].content.items[j].type = "thinking"

\* content that is absent, neither a string nor a block sequence, or a
\* block sequence of null and non-object blocks only
Malformed(entry) ==
  \/ entry.content.kind \in {"absent", "other"}
  \/ /\ entry.content.kind = "array"
     /\ entry.content.items # << >>
     /\ \A i \in 1..Len(entry.content.items) :
          entry.content.items[i].type \in {"null", "number"}

(***************************************************************************)
(* C21: extractRounds completes on every log, entries with malformed       *)
(* content included: no call ends with an exception, and a returned call   *)
(* holds as many round entries as the log has entries, an entry with       *)
(* malformed content being no tool-result echo and no interrupt notice     *)
(* and having an undefined preview.                                        *)
(* Violated: item.type on a null block throws a TypeError in isToolResult  *)
(* (line 171), which extractRounds does not catch.                         *)
(***************************************************************************)
C21_MalformedContentNeverAborts ==
  \A p \in DOMAIN pass :
    /\ pass[p].pc # "threw"
    /\ Returned(p) =>
         LET all == Flatten(pass[p].rounds)
             entries == pass[p].entries
         IN /\ Len(all) = Len(entries)
            /\ \A i \in 1..Len(entries) :
                 Malformed(entries[i]) =>
                   /\ ~isToolResult(entries[i])
                   /\ ~isInterruptMessage(entries[i])
                   /\ all[i].displayContent = Undefined

\* the entries the call p has classified and placed in a round
Processed(p) ==
  IF pass[p].pc \in {"loop", "done"} THEN 1..(pass[p].i - 1) ELSE {}

\* some text block of the content, at any position, has a text that
\* contains the interrupt literal
SomeTextBlockInterrupts(entry) ==
  /\ entry.content.kind = "array"
  /\ \E i \in 1..Len(entry.content.items) :
       /\ entry.content.items[i].type = "text"
       /\ Truthy(entry.content.items[i].text)
       /\ Includes(entry.content.items[i].text, InterruptMarker)

(***************************************************************************)
(* C23: isInterruptMessage is true exactly for an entry of role user       *)
(* whose content is a block sequence with some text block, at any          *)
(* position, whose text contains "[Request interrupted by user"; it is     *)
(* false for plain-string and for absent content.                          *)
(* Violated: content.find (line 182) returns the first text block and      *)
(* only its text is searched.                                              *)
(***************************************************************************)
C23_InterruptInAnyTextBlock ==
  \A p \in DOMAIN pass :
    \A i \in Processed(p) :
      LET entry == pass[p].entries[i]
      IN /\ isInterruptMessage(entry) <=>
              (entry.type = "user" /\ SomeTextBlockInterrupts(entry))
         /\ entry.content.kind \in {"string", "absent"} =>
              ~isInterruptMessage(entry)

\* the round entries the call p has made so far, in the order made
Placed(p) ==
  IF Returned(p) THEN Flatten(pass[p].rounds)
  ELSE Flatten(pass[p].rounds) \o pass[p].currentRoundEntries

\* the first 100 characters of t, followed by the marker when t is longer
Cut(t) == IF Len(t) <= 100 THEN t ELSE SubSeq(t, 1, 100) \o Ellipsis

\* the first block of the type, where the content has one
HasBlock(entry, ty) == FindIndex(entry.content.items, ty) # 0
FirstBlock(entry, ty) == entry.content.items[FindIndex(entry.content.items, ty)]

(***************************************************************************)
(* C25, as stated: for block-sequence content the preview is the text of   *)
(* the first text block, cut to 100 characters (with or without the        *)
(* marker); only when there is no text block it is the first tool-result   *)
(* block's content rendered as text, cut likewise; undefined when there    *)
(* is neither.                                                             *)
(* Violated: a first text block with an empty text leaves the preview to   *)
(* the tool-result block (line 138), and an entry that is neither of       *)
(* role user nor assistant has no preview (line 122).                      *)
(***************************************************************************)
C25_Original_TextBlockElseToolResult ==
  \A p \in DOMAIN pass :
    \A i \in Processed(p) :
      LET entry == pass[p].entries[i]
          preview == Placed(p)[i].displayContent
      IN entry.content.kind = "array" =>
           IF HasBlock(entry, "text")
           THEN \/ preview = Substring0(FirstBlock(entry, "text").text, 100)
                \/ preview = Cut(FirstBlock(entry, "text").text)
           ELSE IF HasBlock(entry, "tool_result")
           THEN LET str == ToolContentToString(
                             FirstBlock(entry, "tool_result").content)
                IN preview = Substring0(str, 100) \/ preview = Cut(str)
           ELSE preview = Undefined

(***************************************************************************)
(* C25: for an entry of role user or assistant with block-sequence         *)
(* content the preview is the text of the first text block when that text  *)
(* is not empty, its first 100 characters followed by "..." when it is     *)
(* longer; otherwise the content of the first tool-result block rendered   *)
(* as text and cut likewise, when that content is an array or a non-empty  *)
(* string; otherwise undefined.  Entries of other roles have an undefined  *)
(* preview, and a call ends with an exception only at an entry whose       *)
(* block sequence holds the block null.                                    *)
(***************************************************************************)
C25_BlockPreview ==
  \A p \in DOMAIN pass :
    /\ \A i \in Processed(p) :
         LET entry == pass[p].entries[i]
             preview == Placed(p)[i].displayContent
             text == FirstBlock(entry, "text").text
             content == FirstBlock(entry, "tool_result").content
         IN entry.content.kind = "array" =>
              IF entry.type \notin {"user", "assistant"}
                THEN preview = Undefined
              ELSE IF HasBlock(entry, "text") /\ text \notin {<< >>, Undefined}
                THEN preview = Cut(text)
              ELSE IF /\ HasBlock(entry, "tool_result")
                      /\ content.kind # "absent"
                      /\ content # ToolContentString(<< >>)
                THEN preview = Cut(ToolContentToString(content))
              ELSE preview = Undefined
    /\ pass[p].pc = "threw" =>
         /\ Entry(pass[p]).content.kind = "array"
         /\ HasBlock(Entry(pass[p]), "null")

\* a processed entry whose first text block is empty and whose preview is
\* the cut content of its tool-result block
C25_Witness ==
  \E p \in DOMAIN pass :
    \E i \in Processed(p) :
      LET entry == pass[p].entries[i]
      IN /\ entry.content.kind = "array"
         /\ HasBlock(entry, "text")
         /\ FirstBlock(entry, "text").text = << >>
         /\ HasBlock(entry, "tool_result")
         /\ Placed(p)[i].displayContent = Rep("x", 100) \o Ellipsis

\* the longest preview the two cuts allow: 100 characters and the marker
\* for plain text; a blank, 50 characters of arguments and the marker
\* after a command name that is itself held to the plain-text bound
PreviewBound == (100 + Len(Ellipsis)) + (1 + 50 + Len(Ellipsis))

(***************************************************************************)
(* C26: the length of a preview never exceeds a fixed bound independent    *)
(* of the length of the content: 100 characters plus the marker for plain  *)
(* text, and for string content with a command-name/command-args pattern   *)
(* the command name followed by at most 50 characters of arguments and     *)
(* the marker.                                                             *)
(* Violated: the command name (line 130) is copied whole, so the preview   *)
(* is as long as the name in the content is.                               *)
(***************************************************************************)
C26_PreviewLengthBounded ==
  \A p \in DOMAIN pass :
    \A i \in Processed(p) :
      LET entry == pass[p].entries[i]
          preview == Placed(p)[i].displayContent
          name == RegexGroup(entry.content.text, CmdNameOpen, CmdNameClose,
                             TRUE)
      IN preview # Undefined =>
           /\ Len(preview) <= PreviewBound
           /\ entry.content.kind = "string" /\ name = Undefined =>
                Len(preview) <= 100 + Len(Ellipsis)
           /\ entry.content.kind = "string" /\ name # Undefined =>
                /\ StartsWith(preview, name)
                /\ Len(preview) <= Len(name) + 1 + 50 + Len(Ellipsis)

(***************************************************************************)
(* C28: in the rounds a call returns, round 0 begins with the first entry  *)
(* of the log, every other round begins with an entry that qualifies as a  *)
(* round start, and no entry at another position of its round qualifies:   *)
(* the rounds are the maximal runs of the log that the qualifying entries  *)
(* open, one round for each qualifying entry after the first position and  *)
(* one for the entries before it.  An entry qualifies as line 260          *)
(* decides.                                                                *)
(***************************************************************************)
C28_RoundsAreMaximalRuns ==
  \A p \in DOMAIN pass :
    Returned(p) =>
      LET rounds == pass[p].rounds
          entries == pass[p].entries
      IN /\ Len(Flatten(rounds)) = Len(entries)
         /\ entries # << >> =>
              /\ rounds # << >>
              /\ rounds[1].entries[1].rawContent = JSONStringify(entries[1])
         /\ Len(rounds) = Cardinality(QualifyingAt(entries) \ {1})
                            + (IF entries # << >> THEN 1 ELSE 0)
         /\ \A k \in 1..Len(rounds) :
              LET start == Before(rounds, k) + 1
              IN /\ k > 1 => Qualifies(entries[start])
                 /\ rounds[k].entries[1].rawContent
                      = JSONStringify(entries[start])
                 /\ \A i \in (start + 1)..(start + Len(rounds[k].entries) - 1) :
                      ~Qualifies(entries[i])

\* a returned call whose round 0 begins with an entry that does not
\* qualify and whose round 1 begins with a qualifying entry and holds a
\* user entry that does not qualify
C28_Witness ==
  \E p \in DOMAIN pass :
    /\ Returned(p)
    /\ Len(pass[p].entries) = 3
    /\ Len(pass[p].rounds) = 2
    /\ ~Qualifies(pass[p].entries[1])
    /\ Qualifies(pass[p].entries[2])
    /\ pass[p].entries[3].type = "user"
    /\ ~Qualifies(pass[p].entries[3])
    /\ Len(pass[p].rounds[2].entries) = 2

\* the sealed rounds followed by the bucket are the round entries of the
\* entries processed so far, the counter is the number of sealed rounds,
\* and the bucket holds an entry once an entry has been processed
PrefixSegmented(p) ==
  LET s == pass[p]
      placed == Flatten(s.rounds) \o s.currentRoundEntries
  IN /\ s.pc = "index" =>
          s.rounds = << >> /\ s.currentRoundEntries = << >> /\ s.i = 1
     /\ s.pc \in {"index", "loop", "threw"} =>
          /\ Len(placed) = s.i - 1
          /\ \A j \in 1..Len(placed) :
               /\ placed[j].rawContent = JSONStringify(s.entries[j])
               /\ placed[j].type = s.entries[j].type
          /\ s.roundNumber = Len(s.rounds)
          /\ s.i > 1 => s.currentRoundEntries # << >>
     /\ \A k \in 1..Len(s.rounds) :
          s.rounds[k].roundNumber = k - 1 /\ s.rounds[k].entries # << >>

\* a step leaves every sealed round as it is
SealedRoundsKept(p) ==
  /\ Len(pass'[p].rounds) >= Len(pass[p].rounds)
  /\ \A k \in 1..Len(pass[p].rounds) : pass'[p].rounds[k] = pass[p].rounds[k]

StepsTaken(p) ==
  CASE pass[p].pc = "index" -> 0
    [] pass[p].pc = "loop" -> pass[p].i
    [] pass[p].pc = "done" -> Len(pass[p].entries) + 2
    [] OTHER -> pass[p].i

(***************************************************************************)
(* C22: when the steps of calls on logs of their own are interleaved in    *)
(* any order, each call is at every moment where it is after as many       *)
(* steps taken alone (its bucket, counter, maps and rounds are touched by  *)
(* no other call), a step of one call leaves the other as it is, and each  *)
(* call returns the rounds, with their numbers, that it returns alone.     *)
(***************************************************************************)
C22_InterleavedPassesIndependent ==
  /\ [](\A p \in DOMAIN pass :
          /\ pass[p] = extractRoundsAfter(pass[p].entries, StepsTaken(p))
          /\ Returned(p) => pass[p].rounds = extractRounds(pass[p].entries))
  /\ [][\A p \in DOMAIN pass :
          pass'[p] # pass[p] =>
            \A q \in DOMAIN pass \ {p} : pass'[q] = pass[q]]_vars

\* both calls are in their loops on different logs, the first has sealed
\* a round and the second holds an entry in its bucket and has an entry
\* to take
C22_Witness ==
  /\ pass[1].pc = "loop"
  /\ pass[2].pc = "loop"
  /\ Len(pass[1].rounds) >= 1
  /\ pass[2].currentRoundEntries # << >>
  /\ pass[2].i <= Len(pass[2].entries)
  /\ pass[1].entries # pass[2].entries

\* main holds the entries that loadSystemEntries returned
SystemEntriesLoaded ==
  ops.op = "loadSystemEntries" /\ ops.exitCode = NotExited

(***************************************************************************)
(* C24: after the system entries are re-stamped, every returned entry      *)
(* carries the value of the session's context for each canonical field,    *)
(* and every value the entry had for a canonical field is overridden: no   *)
(* canonical field of a returned entry holds a value that is not the       *)
(* session's.                                                              *)
(* Violated: line 91 sets the fields that are in contextFields only, so a  *)
(* canonical field the session's context lacks keeps the file's value.     *)
(***************************************************************************)
C24_NoStaleContextSurvives ==
  SystemEntriesLoaded =>
    \A k \in 1..Len(ops.systemEntries) :
      \A field \in CanonicalFields :
        LET entry == ops.systemEntries[k]
        IN /\ field \in DOMAIN scan.result =>
                Carries(entry, field) /\ entry[field] = scan.result[field]
           /\ Carries(entry, field) =>
                field \in DOMAIN scan.result /\ entry[field] = scan.result[field]

\* the lines of a text that are the serialization of the entry
LinesOf(text, entry) ==
  {j \in 1..Len(text) : text[j].line = JSONStringify(entry)}

Filtered == Called("filter") \/ Called("extractRoundsWithThinking")

\* the positions in rounds of the rounds of kept, when kept is a
\* subsequence of rounds: each round of kept is a round of rounds, whole,
\* and the rounds of kept stand in the order they have in rounds
IsSubsequence(kept, rounds) ==
  \E at \in [1..Len(kept) -> 1..Len(rounds)] :
    /\ \A j \in 1..Len(kept) : kept[j] = rounds[at[j]]
    /\ \A i, j \in 1..Len(kept) : i < j => at[i] < at[j]

(***************************************************************************)
(* C30: the keyword filter and extractRoundsWithThinking return a          *)
(* subsequence of the rounds they are given, every round kept with its     *)
(* roundNumber and its entry list; the round numbers of the result         *)
(* increase strictly, so the number of its first round is at most that of  *)
(* its last, which the file name of lines 295-299 relies on; and           *)
(* extractRound by the number of a round that is kept returns the same     *)
(* text on the result as on the rounds given.                              *)
(***************************************************************************)
C30_FiltersKeepRounds ==
  Filtered =>
    LET kept == ops.returned
        rounds == ops.rounds
    IN /\ IsSubsequence(kept, rounds)
       /\ \A j \in 1..Len(kept) :
            \E k \in 1..Len(rounds) :
              /\ rounds[k].roundNumber = kept[j].roundNumber
              /\ rounds[k].entries = kept[j].entries
       /\ \A i, j \in 1..Len(kept) :
            i < j => kept[i].roundNumber < kept[j].roundNumber
       /\ kept # << >> => kept[1].roundNumber <= kept[Len(kept)].roundNumber
       /\ \A j \in 1..Len(kept) :
            /\ ~extractRound(kept, kept[j].roundNumber, << >>).isNull
            /\ extractRound(kept, kept[j].roundNumber, << >>)
                 = extractRound(rounds, kept[j].roundNumber, << >>)

\* extractRoundsWithThinking has dropped round 0 and kept a later round,
\* so that the numbers and the positions of the result differ
C30_Witness ==
  /\ Called("extractRoundsWithThinking")
  /\ Len(ops.rounds) >= 2
  /\ Len(ops.returned) = 1
  /\ ops.returned[1].roundNumber > 0

=============================================================================
